---- MODULE Spec2Model ----
(***************************************************************************)
(* Model of the ingress-links-controller: the reconciler that lists the    *)
(* Ingress records, aggregates them into a sorted host/path tree, renders  *)
(* the page and publishes it through an atomic pointer, and the HTTP       *)
(* handler and readiness check that read that pointer.                     *)
(*                                                                         *)
(* Go strings that the code splits or compares (host names, paths, the     *)
(* rendered texts) are sequences of byte values: <<97, 46, 98>> is "a.b".  *)
(* A nil pointer or nil template is the empty sequence <<>>, a non-nil     *)
(* pointer to x is <<x>>.  The page string a pass publishes is a fresh     *)
(* local variable that is never assigned again, so the pointer to it is    *)
(* modelled by the value it points to.                                     *)
(***************************************************************************)
EXTENDS Integers, Sequences, FiniteSets, TLC

\* ------------------------------------------------------------------ bounds
NumReaders == 2
MaxSortHosts == 3
MaxRecords == 2
MaxFlags == 2

\* --------------------------------------------------------- program constants
Dot == 46
Slash == 47
Equals == 61
StatusOK == 200
StatusNotFound == 404
ExitFailure == 1
ExitFlagError == 2

hostTemplateAnnotation == "ingress-links.nev.dev/host-template"
pathTemplateAnnotation == "ingress-links.nev.dev/path-template"
skipAnnotation == "ingress-links.nev.dev/skip"

Nil == <<>>

\* "https://", the static text in front of {{.Host}} in both link templates
HTTPS == <<104, 116, 116, 112, 115, 58, 47, 47>>

\* ------------------------------------------------------------ Go strings
Min(S) == CHOOSE x \in S : \A y \in S : x <= y

\* strings.Compare: -1, 0 or 1 by the first differing byte, a proper prefix first
RECURSIVE Compare(_, _)
Compare(s, t) ==
    IF s = <<>> /\ t = <<>> THEN 0
    ELSE IF s = <<>> THEN -1
    ELSE IF t = <<>> THEN 1
    ELSE IF Head(s) < Head(t) THEN -1
    ELSE IF Head(s) > Head(t) THEN 1
    ELSE Compare(Tail(s), Tail(t))

\* strings.Split(s, "."): the pieces between the dots, "" gives one empty piece
RECURSIVE Split(_)
Split(s) ==
    LET dots == {i \in 1..Len(s) : s[i] = Dot}
    IN IF dots = {} THEN <<s>>
       ELSE LET i == Min(dots)
            IN <<SubSeq(s, 1, i - 1)>> \o Split(SubSeq(s, i + 1, Len(s)))

\* The replacements html/template applies to a string value in HTML text
HTMLEscapeByte(b) ==
    CASE b = 60 -> <<38, 108, 116, 59>>
      [] b = 62 -> <<38, 103, 116, 59>>
      [] b = 38 -> <<38, 97, 109, 112, 59>>
      [] b = 34 -> <<38, 35, 51, 52, 59>>
      [] b = 39 -> <<38, 35, 51, 57, 59>>
      [] OTHER -> <<b>>

RECURSIVE HTMLEscape(_)
HTMLEscape(s) ==
    IF s = <<>> THEN <<>> ELSE HTMLEscapeByte(Head(s)) \o HTMLEscape(Tail(s))

\* The URL normalizer html/template applies inside an href attribute
URLEscapeByte(b) ==
    CASE b = 60 -> <<37, 51, 99>>
      [] b = 62 -> <<37, 51, 101>>
      [] b = 34 -> <<37, 50, 50>>
      [] b = 39 -> <<37, 50, 55>>
      [] b = 38 -> <<38, 97, 109, 112, 59>>
      [] OTHER -> <<b>>

RECURSIVE URLEscape(_)
URLEscape(s) ==
    IF s = <<>> THEN <<>> ELSE URLEscapeByte(Head(s)) \o URLEscape(Tail(s))

\* ------------------------------------------------------- the host comparator
\* Mutant: compares from the first segment on, as a plain left-to-right sort
HostLessLeftToRight(a, b) ==
    LET isegs == Split(a)
        jsegs == Split(b)
        n == IF Len(isegs) < Len(jsegs) THEN Len(isegs) ELSE Len(jsegs)
        diffs == {r \in 1..n : Compare(isegs[r], jsegs[r]) # 0}
    IN IF diffs # {}
       THEN Compare(isegs[Min(diffs)], jsegs[Min(diffs)]) < 0
       ELSE Len(isegs) < Len(jsegs)

\* Mutant: stops after the last segment, leaving hosts of one TLD unordered
HostLessTLDOnly(a, b) ==
    LET isegs == Split(a)
        jsegs == Split(b)
    IN Compare(isegs[Len(isegs)], jsegs[Len(jsegs)]) < 0

\* Mutant: without the final comparison of the segment counts, which leaves
\* a domain and its subdomains unordered
HostLessNoLength(a, b) ==
    LET isegs == Split(a)
        jsegs == Split(b)
        n == IF Len(isegs) < Len(jsegs) THEN Len(isegs) ELSE Len(jsegs)
        diffs == {ridx \in 0..(n - 1) :
                     Compare(isegs[Len(isegs) - ridx], jsegs[Len(jsegs) - ridx]) # 0}
    IN /\ diffs # {}
       /\ Compare(isegs[Len(isegs) - Min(diffs)], jsegs[Len(jsegs) - Min(diffs)]) < 0

\* The func given to sort.Slice: segments compared from the last one on, and
\* the host with fewer segments first when all common segments agree
HostLess(a, b) ==
    LET isegs == Split(a)
        jsegs == Split(b)
        n == IF Len(isegs) < Len(jsegs) THEN Len(isegs) ELSE Len(jsegs)
        diffs == {ridx \in 0..(n - 1) :
                     Compare(isegs[Len(isegs) - ridx], jsegs[Len(jsegs) - ridx]) # 0}
    IN IF diffs # {}
       THEN LET ridx == Min(diffs)
            IN Compare(isegs[Len(isegs) - ridx], jsegs[Len(jsegs) - ridx]) < 0
       ELSE Len(isegs) < Len(jsegs)

SwapAt(l, i, j) == [l EXCEPT ![i] = l[j], ![j] = l[i]]

\* sort.Slice on fewer than 12 elements is an insertion sort with the given less
RECURSIVE SinkDown(_, _)
SinkDown(l, j) ==
    IF j > 1 /\ HostLess(l[j].Host, l[j - 1].Host)
    THEN SinkDown(SwapAt(l, j, j - 1), j - 1)
    ELSE l

RECURSIVE InsertionSort(_, _)
InsertionSort(l, i) ==
    IF i > Len(l) THEN l ELSE InsertionSort(SinkDown(l, i), i + 1)

SortSlice(l) == InsertionSort(l, 2)

\* {{range .Paths}} over a map visits the keys in sorted order
RECURSIVE SortedKeys(_)
SortedKeys(S) ==
    IF S = {} THEN <<>>
    ELSE LET m == CHOOSE x \in S : \A y \in S : Compare(x, y) <= 0
         IN <<m>> \o SortedKeys(S \ {m})

\* slices.Collect(maps.Values(hosts)): the map's values in any iteration order
Orders(S) == {o \in [1..Cardinality(S) -> S] : \A i, j \in DOMAIN o : i # j => o[i] # o[j]}

Collect(hosts, order) == [i \in DOMAIN order |-> hosts[order[i]]]

\* ------------------------------------------------- the startup template set
\* srvTpl is the set of named templates: a function from the name to
\* [origin, text], origin "builtin" for the texts of lines 63-91, "flag" for
\* a text given on the command line, "file" for one loaded by ParseGlob, and
\* "none" for a template object that has no parse tree.
RootName == <<>>
BodyName == <<98, 111, 100, 121>>

BuiltinNames ==
    {RootName, BodyName,
     <<104, 101, 97, 100>>, <<115, 116, 121, 108, 101>>,
     <<104, 111, 115, 116, 108, 105, 110, 107>>,
     <<112, 97, 116, 104, 108, 105, 110, 107>>}

Builtin == [origin |-> "builtin", text |-> <<>>]
NoTree == [origin |-> "none", text |-> <<>>]

DefaultTemplates == [n \in BuiltinNames |-> Builtin]

\* the body of the "strict" set
StrictBody ==
    <<123, 123, 119, 105, 116, 104, 32, 105, 110, 100, 101, 120, 32, 46, 72, 111,
      115, 116, 115, 32, 48, 125, 125, 123, 123, 101, 110, 100, 125, 125>>

StrictTemplates == (BodyName :> [origin |-> "flag", text |-> StrictBody]) @@ DefaultTemplates

TemplatesOf(kind) == IF kind = "strict" THEN StrictTemplates ELSE DefaultTemplates

\* what srvTpl.Execute (line 291) does with the set: see Execute
RootTplOf(set) ==
    IF set[RootName].origin = "none" THEN "empty"
    ELSE IF set[RootName].origin # "builtin" THEN "replaced"
    ELSE IF set[BodyName] = [origin |-> "flag", text |-> StrictBody] THEN "strict"
    ELSE IF set[BodyName].origin # "builtin" THEN "replaced"
    ELSE "default"

\* strings.Cut(s, "="): around the first "="
Cut(s) ==
    LET eqs == {i \in 1..Len(s) : s[i] = Equals}
    IN IF eqs = {}
       THEN [name |-> s, text |-> <<>>, found |-> FALSE]
       ELSE [name |-> SubSeq(s, 1, Min(eqs) - 1),
             text |-> SubSeq(s, Min(eqs) + 1, Len(s)),
             found |-> TRUE]

\* the characters of line 110's ContainsAny: < > { } ' " &
NameSpecials == {60, 62, 123, 125, 39, 34, 38}

\* unicode.IsSpace and unicode.IsControl on the ASCII range
IsSpace(b) == b \in {9, 10, 11, 12, 13, 32}
IsControl(b) == b < 32 \/ b = 127

\* Mutant: the test without the braces
RootReplacingNoBraces(s) ==
    \/ ~Cut(s).found
    \/ \E i \in DOMAIN Cut(s).name :
          \/ Cut(s).name[i] \in {60, 62, 39, 34, 38}
          \/ IsSpace(Cut(s).name[i])
          \/ IsControl(Cut(s).name[i])

\* Line 110: the string is parsed as the root template
RootReplacing(s) ==
    \/ ~Cut(s).found
    \/ \E i \in DOMAIN Cut(s).name : Cut(s).name[i] \in NameSpecials
    \/ \E i \in DOMAIN Cut(s).name : IsSpace(Cut(s).name[i])
    \/ \E i \in DOMAIN Cut(s).name : IsControl(Cut(s).name[i])

\* Parse fails on the texts the model draws when an action is left open: a
\* "{{" with no "}}" after it
Unclosed(text) ==
    \E i \in 1..(Len(text) - 1) :
        /\ text[i] = 123 /\ text[i + 1] = 123
        /\ ~\E j \in (i + 2)..(Len(text) - 1) : text[j] = 125 /\ text[j + 1] = 125

IsBlank(text) == \A i \in DOMAIN text : IsSpace(text[i])

\* (*Template).Parse(text) into the template `name` of the set.  A text of
\* white space only does not replace an existing template, and a template
\* object without a tree keeps being without one.
ParseTemplate(set, name, text, origin) ==
    IF Unclosed(text) THEN [err |-> TRUE, set |-> set]
    ELSE IF name \in DOMAIN set /\ (IsBlank(text) \/ set[name].origin = "none")
    THEN [err |-> FALSE, set |-> set]
    ELSE [err |-> FALSE, set |-> (name :> [origin |-> origin, text |-> text]) @@ set]

\* srvTpl.New(name).Parse(text).  New resets the template object that has the
\* name; for the empty name that object is srvTpl itself (template.New("") on
\* line 63), which is left as an empty template of a name space of its own.
NewTemplate(set, name, text) ==
    IF name = RootName
    THEN [err |-> Unclosed(text), set |-> (RootName :> NoTree)]
    ELSE ParseTemplate(set, name, text, "flag")

\* Lines 108-116: the func of flag.Func("template", ...)
TemplateFlag(set, s) ==
    IF RootReplacing(s)
    THEN ParseTemplate(set, RootName, s, "flag")
    ELSE NewTemplate(set, Cut(s).name, Cut(s).text)

\* Lines 120-125: srvTpl.ParseGlob(*loadTemplates).  The pattern matches
\* one file "x" that parses ("ok"), one that does not ("bad"), or no file
\* ("nomatch", which ParseGlob reports as an error)
ParseGlob(set, pattern) ==
    IF pattern = "ok"
    THEN ParseTemplate(set, <<120>>, <<84>>, "file")
    ELSE [err |-> TRUE, set |-> set]

\* ------------------------------------------------- per-record templates
\* item.Annotations[key]: a missing key reads as the empty string
Annotation(item, key) ==
    IF key \in DOMAIN item.Annotations THEN item.Annotations[key] ELSE ""

\* Template.Parse on the annotation texts the model draws from: "{{" is an
\* unclosed action, every other text parses
ParseFails(text) == text = "{{"

\* Lines 190-212: no template for an empty annotation or one that fails to
\* parse (logged), else the clone of the startup set with the root replaced.
\* tpl.Clone() fails only for a template that was executed, and the startup
\* clone never is.
ParseOverride(text) ==
    IF text = "" THEN Nil
    ELSE IF ParseFails(text) THEN Nil
    ELSE <<text>>

\* an annotation text that defines the block "hostlink" before its root text
DefineHostlink == "{{define \"hostlink\"}}z{{end}}x{{.Host}}"
HostlinkName == <<104, 111, 115, 116, 108, 105, 110, 107>>

\* the named templates an annotation text defines besides the root
Defined(text) == IF text = DefineHostlink THEN {HostlinkName} ELSE {}

\* (*Template).Parse of an annotation text that parses, into a template set:
\* the root and the templates the text defines are replaced
ParseAnnotation(set, text) ==
    [n \in DOMAIN set \cup Defined(text) |->
        IF n = RootName \/ n \in Defined(text)
        THEN [origin |-> "annotation", text |-> <<text>>]
        ELSE set[n]]

\* Mutant: the text is parsed into tpl itself
ParseInPlace(tpl, text) ==
    [tpl |-> ParseAnnotation(tpl, text), clone |-> ParseAnnotation(tpl, text)]

\* Lines 192-196 and 204-208 for a text that parses: tpl.Clone() is a copy
\* of the whole set and the text is parsed into the copy.  tpl is the set as
\* the call leaves it, clone the set the record's template belongs to.
CloneParse(tpl, text) ==
    [tpl |-> tpl, clone |-> ParseAnnotation(tpl, text)]

\* Lines 190-212: the set tpl after the template of one annotation was made;
\* an empty annotation makes none and a text that fails to parse changes no
\* set
AfterOverride(tpl, text) ==
    IF text = "" \/ ParseFails(text) THEN tpl ELSE CloneParse(tpl, text).tpl

\* hostTpl.Execute(&sb, hostTemplateValue{Host, Ingress, Rule}): the value has
\* no field Path or Nope, so a template naming one fails when executed
ExecuteHostTemplate(text, host) ==
    CASE text = "x{{.Host}}" -> [err |-> FALSE, out |-> <<120>> \o HTMLEscape(host)]
      [] text = "y{{.Host}}" -> [err |-> FALSE, out |-> <<121>> \o HTMLEscape(host)]
      [] text = DefineHostlink -> [err |-> FALSE, out |-> <<120>> \o HTMLEscape(host)]
      [] OTHER -> [err |-> TRUE, out |-> <<>>]

\* pathTpl.Execute(&sb, pathTemplateValue{Path, Ingress, Rule}): the value has
\* no field Host or Nope
ExecutePathTemplate(text, path) ==
    CASE text = "p{{.Path.Path}}" -> [err |-> FALSE, out |-> <<112>> \o HTMLEscape(path.Path)]
      [] text = "q{{.Path.Path}}" -> [err |-> FALSE, out |-> <<113>> \o HTMLEscape(path.Path)]
      [] OTHER -> [err |-> TRUE, out |-> <<>>]

\* ------------------------------------------------------------ aggregation
NewHostValues(host) == [Host |-> host, Text |-> <<>>, Paths |-> <<>>]

\* Mutant: a fresh entry for every rule, dropping what earlier rules gave
HostEntryAlwaysNew(hosts, host) == NewHostValues(host)

\* Lines 220-226: the entry of the host, created on first use
HostEntry(hosts, host) ==
    IF host \in DOMAIN hosts THEN hosts[host] ELSE NewHostValues(host)

\* Mutant: the path string counts whatever the kind is
ResolvePathAnyKind(path) == path.Path

\* Lines 245-251: the path string counts for an Exact or Prefix item only
ResolvePath(path) ==
    IF path.PathType = Nil THEN <<>>
    ELSE IF path.PathType = <<"Exact">> THEN path.Path
    ELSE IF path.PathType = <<"Prefix">> THEN path.Path
    ELSE <<>>

\* Mutant: a path that is already stored is stored again
PathSkippedOnlyEmpty(hv, p) == p = <<>>

\* Mutant: a host that has a path takes no other
PathSkippedOnceAnyStored(hv, p) == p = <<>> \/ DOMAIN hv.Paths # {}

\* Line 253: pv.Path == "" || hv.Paths[pv.Path] != nil
PathSkipped(hv, p) == p = <<>> \/ p \in DOMAIN hv.Paths

\* Lines 241-271: the loop over rule.HTTP.Paths for one rule.  st.hv is the
\* host's entry; st.execs records, in order, each pathTpl.Execute of line 259
\* (the template text and the host and path it ran for).
RECURSIVE AggregatePaths(_, _, _, _)
AggregatePaths(st, rule, pathTpl, k) ==
    IF k > Len(rule.HTTP[1].Paths) THEN st
    ELSE LET path == rule.HTTP[1].Paths[k]
             p == ResolvePath(path)
         IN IF PathSkipped(st.hv, p)
            THEN AggregatePaths(st, rule, pathTpl, k + 1)
            ELSE LET ex == IF pathTpl # Nil
                           THEN ExecutePathTemplate(pathTpl[1], path)
                           ELSE [err |-> TRUE, out |-> <<>>]
                     pv == [Host |-> st.hv.Host, Path |-> p,
                            Text |-> IF ex.err THEN <<>> ELSE ex.out]
                 IN AggregatePaths(
                        [hv |-> [st.hv EXCEPT !.Paths = (p :> pv) @@ @],
                         execs |-> IF pathTpl # Nil
                                   THEN Append(st.execs, [tpl |-> pathTpl[1],
                                                          host |-> st.hv.Host,
                                                          path |-> p])
                                   ELSE st.execs],
                        rule, pathTpl, k + 1)

\* Mutant: a text is set only while the entry has none
HostTextKeepFirst(old, ex) == IF ex.err \/ old # <<>> THEN old ELSE ex.out

\* Lines 234-238: hv.Text is assigned whenever the host template rendered,
\* whatever it held before
HostText(old, ex) == IF ex.err THEN old ELSE ex.out

\* Lines 214-272: the loop over item.Spec.Rules.  rule.HTTP is a pointer and
\* line 241 reads rule.HTTP.Paths without a nil check: a rule with a host and
\* no HTTP section panics there, after its host entry was created.
RECURSIVE AggregateRules(_, _, _, _, _)
AggregateRules(acc, item, hostTpl, pathTpl, k) ==
    IF acc.panic \/ k > Len(item.Spec.Rules) THEN acc
    ELSE LET rule == item.Spec.Rules[k]
             host == rule.Host
         IN IF host = <<>>
            THEN AggregateRules(acc, item, hostTpl, pathTpl, k + 1)
            ELSE LET hv0 == HostEntry(acc.hosts, host)
                     ex == IF hostTpl # Nil
                           THEN ExecuteHostTemplate(hostTpl[1], host)
                           ELSE [err |-> TRUE, out |-> <<>>]
                     hv == [hv0 EXCEPT !.Text = HostText(@, ex)]
                 IN IF rule.HTTP = Nil
                    THEN [acc EXCEPT !.hosts = (host :> hv) @@ @, !.panic = TRUE]
                    ELSE LET st == AggregatePaths([hv |-> hv, execs |-> acc.execs],
                                                  rule, pathTpl, 1)
                         IN AggregateRules(
                                [acc EXCEPT !.hosts = (host :> st.hv) @@ @,
                                            !.execs = st.execs],
                                item, hostTpl, pathTpl, k + 1)

\* Mutant: no record is skipped
SkippedNever(item) == FALSE

\* Mutant: any value of the skip annotation skips the record
SkippedIfAnnotated(item) == Annotation(item, skipAnnotation) # ""

\* Line 186: item.Annotations[skipAnnotation] == "true"
Skipped(item) == Annotation(item, skipAnnotation) = "true"

\* Lines 185-273: the loop over is.Items.  acc.tpl is the set tpl (baseTpl)
\* as the clones and parses of the records so far have left it.
RECURSIVE AggregateItems(_, _, _)
AggregateItems(acc, items, k) ==
    IF acc.panic \/ k > Len(items) THEN acc
    ELSE LET item == items[k]
             hostText == Annotation(item, hostTemplateAnnotation)
             pathText == Annotation(item, pathTemplateAnnotation)
         IN IF Skipped(item)
            THEN AggregateItems(acc, items, k + 1)
            ELSE AggregateItems(
                     AggregateRules(
                         [acc EXCEPT !.tpl = AfterOverride(AfterOverride(@, hostText),
                                                           pathText)],
                         item, ParseOverride(hostText), ParseOverride(pathText), 1),
                     items, k + 1)

\* hosts := map[string]*hostValues{} filled from the listed items, with tpl
\* the set the reconciler was built with
AggregateWith(tpl, items) ==
    AggregateItems([hosts |-> <<>>, panic |-> FALSE, execs |-> <<>>, tpl |-> tpl],
                   items, 1)

\* the aggregate alone, which no template set has a part in but through the
\* texts of the annotations
Aggregate(items) == AggregateWith(DefaultTemplates, items)

\* -------------------------------------------------------------- rendering
\* A document is the sequence of its pieces: the static text before the
\* links, one piece per link, the static text after them.
Prolog == [class |-> "prolog", href |-> <<>>, text |-> <<>>]
Epilog == [class |-> "epilog", href |-> <<>>, text |-> <<>>]

\* Mutant: {{.Text}} in place of {{or .Text .Host}}
HostLinkTextOnly(hv) ==
    [class |-> "host", href |-> HTTPS \o URLEscape(hv.Host), text |-> hv.Text]

\* Line 80, block "hostlink": {{or .Text .Host}} is the text when it is not
\* empty (template.HTML, written as is), else the escaped host
HostLink(hv) ==
    [class |-> "host",
     href |-> HTTPS \o URLEscape(hv.Host),
     text |-> IF hv.Text # <<>> THEN hv.Text ELSE HTMLEscape(hv.Host)]

\* Mutant: the path link points to the host
PathLinkHostTarget(pv) ==
    [class |-> "path", href |-> HTTPS \o URLEscape(pv.Host),
     text |-> IF pv.Text # <<>> THEN pv.Text ELSE HTMLEscape(pv.Path)]

\* Line 83, block "pathlink"
PathLink(pv) ==
    [class |-> "path",
     href |-> HTTPS \o URLEscape(pv.Host) \o URLEscape(pv.Path),
     text |-> IF pv.Text # <<>> THEN pv.Text ELSE HTMLEscape(pv.Path)]

\* Mutant: every stored path gets its link
PathLinksWithRoot(hv, keys) == [i \in DOMAIN keys |-> PathLink(hv.Paths[keys[i]])]

\* Lines 81-85: the links of a host's paths, "/" left out
RECURSIVE PathLinks(_, _)
PathLinks(hv, keys) ==
    IF keys = <<>> THEN <<>>
    ELSE (IF hv.Paths[Head(keys)].Path # <<Slash>>
          THEN <<PathLink(hv.Paths[Head(keys)])>>
          ELSE <<>>) \o PathLinks(hv, Tail(keys))

\* Lines 79-86: the host links in list order, each followed by its path links
RECURSIVE HostBlocks(_)
HostBlocks(hostsList) ==
    IF hostsList = <<>> THEN <<>>
    ELSE <<HostLink(Head(hostsList))>>
         \o PathLinks(Head(hostsList), SortedKeys(DOMAIN Head(hostsList).Paths))
         \o HostBlocks(Tail(hostsList))

\* srvTpl.Execute(&sb, &templateValues{Hosts: hostsList}).  rootTpl is the
\* startup template set: "default" is lines 63-91; "strict" is the default
\* with block "body" replaced on the command line (--template body=...) by
\* one that starts with {{with index .Hosts 0}}{{end}}, which fails on an
\* empty list after the head was written.
\* Two more sets arise from the --template flags the startup model draws:
\* "replaced" has the root or the body block replaced by a text without
\* actions, which renders that text and no link; "empty" has a root without
\* a parse tree, which html/template refuses to execute.
Static == [class |-> "static", href |-> <<>>, text |-> <<>>]

Execute(rootTpl, hostsList) ==
    IF rootTpl = "empty"
    THEN [err |-> TRUE, out |-> <<>>]
    ELSE IF rootTpl = "replaced"
    THEN [err |-> FALSE, out |-> <<Static>>]
    ELSE IF rootTpl = "strict" /\ hostsList = <<>>
    THEN [err |-> TRUE, out |-> <<Prolog>>]
    ELSE [err |-> FALSE, out |-> <<Prolog>> \o HostBlocks(hostsList) \o <<Epilog>>]

\* ------------------------------------------------------------------ state
VARIABLES
    cluster,    \* the Ingress list the Record Source holds now
    rootTpl,    \* the startup template set: "default" or "strict"
    pagePtr,    \* var pagePtr atomic.Pointer[string]: Nil or <<document>>
    pc,         \* where the reconcile pass is: "idle" between passes
    is,         \* the pass's listed items
    hosts,      \* the pass's map[string]*hostValues
    hostsList,  \* the pass's sorted slice
    page,       \* the pass's rendered page
    result,     \* what the last pass returned to the controller
    fault,      \* what went wrong in the running or last pass, if anything
    before,     \* pagePtr as it was when the running or last pass started
    log,        \* the info messages logged
    rendered,   \* the documents srvTpl.Execute wrote without error
    rpc,        \* per client: "idle", "loaded" (handler between Load and Copy), "done"
    rpage,      \* per client: the handler's local page pointer
    resp,       \* per client: the response of the request
    argv,       \* main: the --template values flag.Parse has yet to handle
    loadTemplates, \* main: what the --load-templates pattern matches, "" if unset
    srvTpl,     \* var srvTpl: the page template set
    baseTpl,    \* main: the clone of srvTpl the reconciler clones per record
    mainpc,     \* where main is: "flags", "loaded", "cloned", "started", "exit-..."
    exitCode,   \* Nil while the process runs, else <<status>>
    startErr,   \* main: Nil while m.Start runs, else <<what it returned>>
    srvCtx,     \* main.go: "active" or "canceled" (cancelSrv was called)
    grpErr,     \* main.go: the errgroup's first error, Nil or <<error>>
    sigCtx,     \* whether INT or TERM was delivered
    gpc,        \* main.go: where the manager, server and watcher goroutines are
    server,     \* main.go: the http.Server: "new", "listening", "shutdown", "closed"
    shutdownCtx, \* main.go: the shutdown timeout: "unset", "running", "expired"
    conn        \* main.go: per client, the request: "idle", "inflight", "done", "reset"

shutdownVars == <<srvCtx, grpErr, sigCtx, gpc, server, shutdownCtx, conn>>

processVars == <<argv, loadTemplates, srvTpl, baseTpl, mainpc, exitCode, startErr,
                 shutdownVars>>

vars == <<cluster, rootTpl, pagePtr, pc, is, hosts, hostsList, page, result,
          fault, before, log, rendered, rpc, rpage, resp, processVars>>

passVars == <<pc, is, hosts, hostsList, page, result, fault, before>>
clientVars == <<rpc, rpage, resp>>

Readers == 1..NumReaders

\* ---------------------------------------------------------------- records
PathItem(p, t) == [Path |-> p, PathType |-> t]
Rule(h, http) == [Host |-> h, HTTP |-> http]
Ingress(ann, rules) == [Annotations |-> ann, Spec |-> [Rules |-> rules]]
HTTPPaths(ps) == <<[Paths |-> ps]>>

NoAnnotations == <<>>
SkipTrue == skipAnnotation :> "true"
HostTemplateX == hostTemplateAnnotation :> "x{{.Host}}"

\* "b", "a.b" and the empty host
RuleHosts == {<<>>, <<98>>, <<97, 46, 98>>}

\* no HTTP section; one without paths; "/" and "/a"; "/a" again, "/b" and a
\* "/c" whose path type is unset
RuleHTTPs ==
    {Nil,
     HTTPPaths(<<>>),
     HTTPPaths(<<PathItem(<<47>>, <<"Prefix">>), PathItem(<<47, 97>>, <<"Exact">>)>>),
     HTTPPaths(<<PathItem(<<47, 97>>, <<"Prefix">>), PathItem(<<47, 98>>, <<"Prefix">>),
                 PathItem(<<47, 99>>, Nil)>>)}

Rules == {Rule(h, http) : h \in RuleHosts, http \in RuleHTTPs}

\* one rule, none, or two rules for the same host with different HTTP sections
RuleLists ==
    {<<>>} \cup {<<r>> : r \in Rules}
    \cup {<<Rule(<<98>>, RH[1]), Rule(<<98>>, RH[2])>> :
             RH \in {<<HTTPPaths(<<PathItem(<<47, 97>>, <<"Exact">>)>>),
                       HTTPPaths(<<PathItem(<<47, 97>>, <<"Prefix">>),
                                   PathItem(<<47, 98>>, <<"Prefix">>)>>)>>,
                     <<HTTPPaths(<<PathItem(<<47, 98>>, <<"Prefix">>)>>), Nil>>}}

Records == {Ingress(a, rs) : a \in {NoAnnotations, SkipTrue, HostTemplateX}, rs \in RuleLists}

RECURSIVE SeqsUpTo(_, _)
SeqsUpTo(S, n) ==
    IF n = 0 THEN {<<>>}
    ELSE LET shorter == SeqsUpTo(S, n - 1)
         IN shorter \cup {Append(q, x) : q \in {t \in shorter : Len(t) = n - 1}, x \in S}

\* Host names of one to three segments "a", "b" or "ab", and the four hosts
\* of the documented example
Segments == {<<97>>, <<98>>, <<97, 98>>}

SortHosts ==
    Segments
    \cup {s \o <<Dot>> \o t : s \in {<<97>>, <<98>>}, t \in Segments}
    \cup {s \o <<Dot>> \o t \o <<Dot>> \o u : s, t, u \in {<<97>>, <<98>>}}

ExampleCom == <<101, 120, 97, 109, 112, 108, 101, 46, 99, 111, 109>>
AExampleCom == <<97, 46>> \o ExampleCom
BExampleCom == <<98, 46>> \o ExampleCom
ZzzOrg == <<122, 122, 122, 46, 111, 114, 103>>
ExampleHosts == {AExampleCom, ExampleCom, BExampleCom, ZzzOrg}

HostSets ==
    {S \in SUBSET SortHosts : Cardinality(S) \in 1..MaxSortHosts} \cup {ExampleHosts}

\* One Ingress with one rule, without paths, per host of the set
HostsIngress(S) ==
    LET order == SortedKeys(S)
    IN Ingress(NoAnnotations, [i \in DOMAIN order |-> Rule(order[i], HTTPPaths(<<>>))])

\* Records with the skip and override annotations: the skip marker "true"
\* or "false"; host and path templates that render ("x{{.Host}}",
\* "p{{.Path.Path}}", ...), one that defines a named block before its text,
\* ones that do not parse ("{{") and ones that parse and fail when executed
\* ("{{.Nope}}")
SkipFalse == skipAnnotation :> "false"
HostTemplate(text) == hostTemplateAnnotation :> text
PathTemplate(text) == pathTemplateAnnotation :> text

AnnotationSets ==
    {NoAnnotations, SkipTrue, SkipFalse,
     SkipTrue @@ HostTemplate("x{{.Host}}") @@ PathTemplate("p{{.Path.Path}}"),
     HostTemplate("x{{.Host}}"), HostTemplate("y{{.Host}}"), HostTemplate(DefineHostlink),
     HostTemplate("{{"), HostTemplate("{{.Nope}}"),
     PathTemplate("p{{.Path.Path}}"), PathTemplate("q{{.Path.Path}}"),
     PathTemplate("{{"), PathTemplate("{{.Nope}}"),
     HostTemplate("x{{.Host}}") @@ PathTemplate("p{{.Path.Path}}"),
     HostTemplate("{{") @@ PathTemplate("{{")}

\* host "b" with "/" and "/a"; host "b" with "/a" again, a "/b" of kind
\* ImplementationSpecific, a "/c" of unset kind and an Exact item without a
\* path string; host "a.b" and host "b", each with "/b"
RulesRootAndA ==
    <<Rule(<<98>>, HTTPPaths(<<PathItem(<<47>>, <<"Prefix">>),
                               PathItem(<<47, 97>>, <<"Exact">>)>>))>>

RulesMixedKinds ==
    <<Rule(<<98>>, HTTPPaths(<<PathItem(<<47, 97>>, <<"Prefix">>),
                               PathItem(<<47, 98>>, <<"ImplementationSpecific">>),
                               PathItem(<<47, 99>>, Nil),
                               PathItem(<<>>, <<"Exact">>)>>))>>

RulesTwoHosts ==
    <<Rule(<<97, 46, 98>>, HTTPPaths(<<PathItem(<<47, 98>>, <<"Prefix">>)>>)),
      Rule(<<98>>, HTTPPaths(<<PathItem(<<47, 98>>, <<"Exact">>)>>))>>

AnnotatedRuleLists == {RulesRootAndA, RulesMixedKinds, RulesTwoHosts}

AnnotatedRecords == {Ingress(a, rs) : a \in AnnotationSets, rs \in AnnotatedRuleLists}

AnnotatedClusters ==
    {<<x>> : x \in AnnotatedRecords} \cup {<<x, y>> : x, y \in AnnotatedRecords}

\* three different records out of four: host "b" with "/" and "/a"; host
\* "b" with "/b" and a host template; hosts "a.b" and "b", each with "/b",
\* with a host and a path template; a record marked skip
TripleRecords ==
    {Ingress(NoAnnotations, RulesRootAndA),
     Ingress(HostTemplate("x{{.Host}}"),
             <<Rule(<<98>>, HTTPPaths(<<PathItem(<<47, 98>>, <<"Prefix">>)>>))>>),
     Ingress(HostTemplate("y{{.Host}}") @@ PathTemplate("p{{.Path.Path}}"), RulesTwoHosts),
     Ingress(SkipTrue, RulesRootAndA)}

TripleClusters ==
    {t \in {<<x, y, z>> : x, y, z \in TripleRecords} :
        t[1] # t[2] /\ t[2] # t[3] /\ t[1] # t[3]}

\* the record sets of the frozen-cluster specification: up to MaxRecords of the
\* records above, the host sets in one Ingress each, one or two of the
\* annotated records, and the triples
FrozenClusters ==
    SeqsUpTo(Records, MaxRecords)
    \cup {<<HostsIngress(S)>> : S \in HostSets}
    \cup AnnotatedClusters
    \cup TripleClusters

\* the record sets the running system moves between
PlainB == Ingress(NoAnnotations, <<Rule(<<98>>, HTTPPaths(<<PathItem(<<47>>, <<"Prefix">>),
                                                           PathItem(<<47, 97>>, <<"Exact">>)>>))>>)
SubAB == Ingress(NoAnnotations, <<Rule(<<97, 46, 98>>, HTTPPaths(<<>>))>>)
HostOnlyB == Ingress(NoAnnotations, <<Rule(<<98>>, Nil)>>)

SystemClusters == {<<>>, <<PlainB>>, <<SubAB, PlainB>>, <<HostOnlyB>>}

\* ----------------------------------------------------------------- start
InitPass ==
    /\ pc = "idle"
    /\ is = <<>>
    /\ hosts = <<>>
    /\ hostsList = <<>>
    /\ page = <<>>
    /\ result = "none"
    /\ fault = "none"
    /\ before = Nil

NoResponse == [kind |-> "none", status |-> 0, ctype |-> "", body |-> <<>>, err |-> ""]

InitClients ==
    /\ rpc = [r \in Readers |-> "idle"]
    /\ rpage = [r \in Readers |-> Nil]
    /\ resp = [r \in Readers |-> NoResponse]

\* the errgroup of the first version of main is not part of this program
NoErrgroup ==
    /\ srvCtx = "active"
    /\ grpErr = Nil
    /\ sigCtx = FALSE
    /\ gpc = [manager |-> "none", server |-> "none", watcher |-> "none"]
    /\ server = "new"
    /\ shutdownCtx = "unset"
    /\ conn = [r \in Readers |-> "idle"]

\* main has parsed its flags and started the manager (line 170)
InitStarted ==
    /\ NoErrgroup
    /\ argv = <<>>
    /\ loadTemplates = ""
    /\ srvTpl = TemplatesOf(rootTpl)
    /\ baseTpl = srvTpl
    /\ mainpc = "started"
    /\ exitCode = Nil
    /\ startErr = Nil

Init ==
    /\ cluster \in SystemClusters
    /\ rootTpl \in {"default", "strict"}
    /\ pagePtr = Nil
    /\ log = {}
    /\ rendered = {}
    /\ InitPass
    /\ InitClients
    /\ InitStarted

\* ------------------------------------------------------- the Record Source
\* Ingresses are created, changed or deleted
ClusterChange ==
    /\ cluster' \in SystemClusters \ {cluster}
    /\ UNCHANGED <<processVars, rootTpl, pagePtr, log, rendered, passVars, clientVars>>

\* ------------------------------------------------------ the reconcile pass
\* The controller caught the error or recovered the panic of a pass
ReturnError ==
    /\ pc' = "idle"
    /\ result' = "error"
    /\ is' = <<>>
    /\ hosts' = <<>>
    /\ hostsList' = <<>>
    /\ page' = <<>>

\* Mutant: goes on with the empty list when List failed
ListFailedIgnored(res) == FALSE

\* Line 179: err != nil
ListFailed(res) == res.err

\* Lines 178-181: kubeClient.List(ctx, is), which may fail
ReconcileList ==
    /\ pc = "idle"
    /\ \E ok \in BOOLEAN :
          LET res == [err |-> ~ok, items |-> IF ok THEN cluster ELSE <<>>]
          IN /\ before' = pagePtr
             /\ fault' = IF res.err THEN "list" ELSE "none"
             /\ IF ListFailed(res)
                THEN ReturnError
                ELSE /\ pc' = "listed"
                     /\ is' = res.items
                     /\ result' = "none"
                     /\ UNCHANGED <<hosts, hostsList, page>>
    /\ UNCHANGED <<processVars, cluster, rootTpl, pagePtr, log, rendered, clientVars>>

\* Lines 183-273: the aggregation; a panic of it ends the pass with an error
\* (the controller recovers a reconciler's panic and requeues)
ReconcileAggregate ==
    /\ pc = "listed"
    /\ LET acc == AggregateWith(baseTpl, is)
       IN /\ baseTpl' = acc.tpl
          /\ IF acc.panic
             THEN /\ ReturnError
                  /\ fault' = "panic"
             ELSE /\ pc' = "aggregated"
                  /\ hosts' = acc.hosts
                  /\ UNCHANGED <<is, hostsList, page, result, fault>>
    /\ UNCHANGED <<argv, loadTemplates, srvTpl, mainpc, exitCode, startErr, shutdownVars,
                   cluster, rootTpl, pagePtr, log, rendered, before, clientVars>>

\* Lines 278-288: the map's values collected in the map's iteration order,
\* then sorted
ReconcileSort ==
    /\ pc = "aggregated"
    /\ \E order \in Orders(DOMAIN hosts) :
          hostsList' = SortSlice(Collect(hosts, order))
    /\ pc' = "sorted"
    /\ UNCHANGED <<processVars, cluster, rootTpl, pagePtr, log, rendered, is, hosts, page,
                   result, fault, before, clientVars>>

\* Mutant: the page is taken from the builder whatever Execute returned
ExecuteFailedIgnored(res) == FALSE

\* Line 291: err != nil
ExecuteFailed(res) == res.err

\* Lines 290-294: the page template executed into a strings.Builder
ReconcileExecute ==
    /\ pc = "sorted"
    /\ LET res == Execute(rootTpl, hostsList)
       IN /\ rendered' = IF res.err THEN rendered ELSE rendered \cup {res.out}
          /\ IF ExecuteFailed(res)
             THEN /\ ReturnError
                  /\ fault' = "render"
             ELSE /\ pc' = "executed"
                  /\ page' = res.out
                  /\ fault' = IF res.err THEN "render" ELSE fault
                  /\ UNCHANGED <<is, hosts, hostsList, result>>
    /\ UNCHANGED <<processVars, cluster, rootTpl, pagePtr, log, before, clientVars>>

\* Mutant: no page is kept when there is nothing to link to
SwapTargetNilOnEmpty(p) == IF Len(p) <= 2 THEN Nil ELSE <<p>>

\* Mutant: only the first page is published
SwapTargetFirstOnly(p) == IF pagePtr = Nil THEN <<p>> ELSE pagePtr

\* Line 295: &page
SwapTarget(p) == <<p>>

\* Lines 295-300: oldPage := pagePtr.Swap(&page), the first one logged
ReconcileSwap ==
    /\ pc = "executed"
    /\ pagePtr' = SwapTarget(page)
    /\ log' = IF pagePtr = Nil THEN log \cup {"First reconcile completed"} ELSE log
    /\ pc' = "idle"
    /\ result' = "ok"
    /\ is' = <<>>
    /\ hosts' = <<>>
    /\ hostsList' = <<>>
    /\ page' = <<>>
    /\ UNCHANGED <<processVars, cluster, rootTpl, rendered, fault, before, clientVars>>

\* ---------------------------------------------------------------- clients
\* http.NotFound: 404, text/plain, "404 page not found"
NotFoundResponse ==
    [kind |-> "page", status |-> StatusNotFound, ctype |-> "text/plain; charset=utf-8",
     body |-> <<[class |-> "plain", href |-> <<>>,
                 text |-> <<52, 48, 52, 32, 112, 97, 103, 101, 32, 110, 111, 116, 32,
                            102, 111, 117, 110, 100, 10>>]>>,
     err |-> ""]

\* Mutant: the handler of the first version, which had no not-ready answer
PageIsNilNever(p) == FALSE

\* Line 308: page == nil
PageIsNil(p) == p = Nil

\* Lines 307-315: page := pagePtr.Load(); not found when nil, else the header
HandlerLoad(r) ==
    /\ rpc[r] = "idle"
    /\ IF PageIsNil(pagePtr)
       THEN /\ resp' = [resp EXCEPT ![r] = NotFoundResponse]
            /\ rpc' = [rpc EXCEPT ![r] = "done"]
            /\ UNCHANGED rpage
       ELSE /\ rpage' = [rpage EXCEPT ![r] = pagePtr]
            /\ resp' = [resp EXCEPT ![r] = [kind |-> "page", status |-> StatusOK,
                                            ctype |-> "text/html", body |-> <<>>,
                                            err |-> ""]]
            /\ rpc' = [rpc EXCEPT ![r] = "loaded"]
    /\ UNCHANGED <<processVars, cluster, rootTpl, pagePtr, log, rendered, passVars>>

\* Mutant: reads the pointer a second time for the body
HandlerBodyReload(r) == pagePtr

\* Line 316: *page, the handler's local pointer
HandlerBody(r) == rpage[r]

\* Lines 316-318: io.Copy(rw, strings.NewReader(*page)), one write of the
\* whole string; a nil dereference aborts the request
HandlerCopy(r) ==
    /\ rpc[r] = "loaded"
    /\ resp' = [resp EXCEPT ![r] =
                   IF HandlerBody(r) = Nil
                   THEN [@ EXCEPT !.kind = "aborted"]
                   ELSE [@ EXCEPT !.body = HandlerBody(r)[1]]]
    /\ rpc' = [rpc EXCEPT ![r] = "done"]
    /\ UNCHANGED <<processVars, cluster, rootTpl, pagePtr, log, rendered, passVars, rpage>>

\* Line 154: pagePtr.Load() == nil gives the error
HavePage(p) == p # Nil

\* Lines 153-158: the "have-page" readiness check
ReadyzCheck(r) ==
    /\ rpc[r] = "idle"
    /\ resp' = [resp EXCEPT ![r] =
                   [kind |-> "readyz", status |-> 0, ctype |-> "", body |-> <<>>,
                    err |-> IF HavePage(pagePtr) THEN "" ELSE "page not rendered"]]
    /\ rpc' = [rpc EXCEPT ![r] = "done"]
    /\ UNCHANGED <<processVars, cluster, rootTpl, pagePtr, log, rendered, passVars, rpage>>

\* The client has its answer
ClientDone(r) ==
    /\ rpc[r] = "done"
    /\ rpc' = [rpc EXCEPT ![r] = "idle"]
    /\ rpage' = [rpage EXCEPT ![r] = Nil]
    /\ resp' = [resp EXCEPT ![r] = NoResponse]
    /\ UNCHANGED <<processVars, cluster, rootTpl, pagePtr, log, rendered, passVars>>

\* ------------------------------------------------------- specifications
Reconcile ==
    \/ ReconcileList
    \/ ReconcileAggregate
    \/ ReconcileSort
    \/ ReconcileExecute
    \/ ReconcileSwap

Next ==
    \/ ClusterChange
    \/ ReconcileList
    \/ ReconcileAggregate
    \/ ReconcileSort
    \/ ReconcileExecute
    \/ ReconcileSwap
    \/ \E r \in Readers : HandlerLoad(r)
    \/ \E r \in Readers : HandlerCopy(r)
    \/ \E r \in Readers : ReadyzCheck(r)
    \/ \E r \in Readers : ClientDone(r)

\* The running system: the record set changes, passes run one at a time,
\* clients ask for the page and for readiness
Spec == Init /\ [][Next]_vars

\* A frozen record set: passes run one after the other and nothing else moves
InitFrozen ==
    /\ cluster \in FrozenClusters
    /\ rootTpl \in {"default", "strict"}
    /\ pagePtr = Nil
    /\ log = {}
    /\ rendered = {}
    /\ InitPass
    /\ InitClients
    /\ InitStarted

SpecFrozen == InitFrozen /\ [][Reconcile]_vars

\* The running system without clients, under the scheduling the controller
\* gives: a started pass runs to its end, passes keep being run (a change is
\* reconciled, a pass that returned an error is retried), and List does not
\* fail forever.
InitLive ==
    /\ cluster \in SystemClusters
    /\ rootTpl = "default"
    /\ pagePtr = Nil
    /\ log = {}
    /\ rendered = {}
    /\ InitPass
    /\ InitClients
    /\ InitStarted

NextLive == ClusterChange \/ Reconcile

ReconcileListed == ReconcileList /\ pc' = "listed"

SpecLive ==
    /\ InitLive
    /\ [][NextLive]_vars
    /\ SF_vars(ReconcileListed)
    /\ WF_vars(ReconcileAggregate)
    /\ WF_vars(ReconcileSort)
    /\ WF_vars(ReconcileExecute)
    /\ WF_vars(ReconcileSwap)

\* ------------------------------------------------- a changing record set
\* The record set as it moves from one revision to the next while passes
\* run: nothing; host "b" with "/" and "/a"; host "a.b" added; the record of
\* "b" marked skip and a record whose rule has no host added; the mark
\* removed again and a second record naming "b", with "/b", in front.
SkippedB == [PlainB EXCEPT !.Annotations = SkipTrue]
NoHostRule == Ingress(NoAnnotations, <<Rule(<<>>, HTTPPaths(<<PathItem(<<47, 97>>, <<"Exact">>)>>))>>)
SecondB == Ingress(NoAnnotations, <<Rule(<<98>>, HTTPPaths(<<PathItem(<<47, 98>>, <<"Prefix">>)>>))>>)

Revisions ==
    <<<<>>,
      <<PlainB>>,
      <<SubAB, PlainB>>,
      <<SkippedB, NoHostRule, SubAB>>,
      <<SecondB, PlainB, NoHostRule, SubAB>>>>

InitRevisions ==
    /\ cluster = Revisions[1]
    /\ rootTpl \in {"default", "strict"}
    /\ pagePtr = Nil
    /\ log = {}
    /\ rendered = {}
    /\ InitPass
    /\ InitClients
    /\ InitStarted

\* An Ingress is created, changed or deleted: the next revision
ClusterAdvance ==
    /\ \E i \in 1..(Len(Revisions) - 1) :
          /\ cluster = Revisions[i]
          /\ cluster' = Revisions[i + 1]
    /\ UNCHANGED <<processVars, rootTpl, pagePtr, log, rendered, passVars, clientVars>>

NextRevisions ==
    \/ ClusterAdvance
    \/ ReconcileList
    \/ ReconcileAggregate
    \/ ReconcileSort
    \/ ReconcileExecute
    \/ ReconcileSwap

\* Passes, one at a time, over a record set that keeps changing under them
SpecRevisions == InitRevisions /\ [][NextRevisions]_vars

\* ------------------------------------------------------------------ startup
\* The values --template is given with: a name, "=" and a text, or a text
\* alone.  The names: "body", "n", the empty name, "{t}", "<t>", "a b",
\* "a&b", a"b and an "a", a control character, "b"; the texts: "T", "T=T",
\* the unclosed "{{" and the empty text.
FlagNames ==
    {BodyName, <<110>>, <<>>, <<123, 116, 125>>, <<60, 116, 62>>, <<97, 32, 98>>,
     <<97, 38, 98>>, <<97, 34, 98>>, <<97, 1, 98>>}

FlagTexts == {<<84>>, <<84, Equals, 84>>, <<123, 123>>, <<>>}

TemplateArgs ==
    {n \o <<Equals>> \o x : n \in FlagNames, x \in FlagTexts}
    \cup {<<84>>, <<123, 123>>, <<>>}

InitStartup ==
    /\ NoErrgroup
    /\ argv \in SeqsUpTo(TemplateArgs, MaxFlags)
    /\ loadTemplates \in {"", "ok", "bad", "nomatch"}
    /\ srvTpl = DefaultTemplates
    /\ baseTpl = Nil
    /\ mainpc = "flags"
    /\ exitCode = Nil
    /\ startErr = Nil
    /\ cluster = <<PlainB>>
    /\ rootTpl = "default"
    /\ pagePtr = Nil
    /\ log = {}
    /\ rendered = {}
    /\ InitPass
    /\ InitClients

\* Line 118, flag.Parse: the next --template value is given to the func of
\* lines 108-116; an error makes the flag package print it and exit with 2
ParseFlag ==
    /\ mainpc = "flags"
    /\ argv # <<>>
    /\ LET res == TemplateFlag(srvTpl, Head(argv))
       IN IF res.err
          THEN /\ mainpc' = "exit-flag"
               /\ exitCode' = <<ExitFlagError>>
               /\ UNCHANGED <<argv, srvTpl, rootTpl>>
          ELSE /\ argv' = Tail(argv)
               /\ srvTpl' = res.set
               /\ rootTpl' = RootTplOf(res.set)
               /\ UNCHANGED <<mainpc, exitCode>>
    /\ UNCHANGED <<loadTemplates, baseTpl, startErr, cluster, pagePtr, log, rendered,
                   passVars, clientVars, shutdownVars>>

\* Lines 120-125: the template files, when a pattern was given
LoadTemplates ==
    /\ mainpc = "flags"
    /\ argv = <<>>
    /\ IF loadTemplates = ""
       THEN /\ mainpc' = "loaded"
            /\ UNCHANGED <<srvTpl, rootTpl, exitCode>>
       ELSE LET res == ParseGlob(srvTpl, loadTemplates)
            IN IF res.err
               THEN /\ mainpc' = "exit-glob"
                    /\ exitCode' = <<ExitFailure>>
                    /\ UNCHANGED <<srvTpl, rootTpl>>
               ELSE /\ mainpc' = "loaded"
                    /\ srvTpl' = res.set
                    /\ rootTpl' = RootTplOf(res.set)
                    /\ UNCHANGED exitCode
    /\ UNCHANGED <<argv, loadTemplates, baseTpl, startErr, cluster, pagePtr, log,
                   rendered, passVars, clientVars, shutdownVars>>

\* Lines 127-131: baseTpl, err := srvTpl.Clone(); Clone fails only for a
\* set that was executed, and none was
CloneTemplates ==
    /\ mainpc = "loaded"
    /\ baseTpl' = srvTpl
    /\ mainpc' = "cloned"
    /\ UNCHANGED <<argv, loadTemplates, srvTpl, exitCode, startErr, cluster, rootTpl,
                   pagePtr, log, rendered, passVars, clientVars, shutdownVars>>

\* Lines 133-170: the kubeconfig is read and the manager created, either of
\* which may fail; then the checks, the controller and the server are
\* registered and m.Start runs them
CreateManager ==
    /\ mainpc = "cloned"
    /\ \E ok \in BOOLEAN :
          IF ok
          THEN mainpc' = "started" /\ UNCHANGED exitCode
          ELSE mainpc' = "exit-manager" /\ exitCode' = <<ExitFailure>>
    /\ UNCHANGED <<argv, loadTemplates, srvTpl, baseTpl, startErr, cluster, rootTpl,
                   pagePtr, log, rendered, passVars, clientVars, shutdownVars>>

\* Line 170, signals.SetupSignalHandler(): INT or TERM is delivered and the
\* context given to m.Start is canceled
SetupSignalHandler ==
    /\ mainpc = "started"
    /\ ~sigCtx
    /\ sigCtx' = TRUE
    /\ UNCHANGED <<argv, loadTemplates, srvTpl, baseTpl, mainpc, exitCode, startErr,
                   srvCtx, grpErr, gpc, server, shutdownCtx, conn,
                   cluster, rootTpl, pagePtr, log, rendered, passVars, clientVars>>

\* errors.Is(err, context.Canceled): false for a nil error
IsCanceled(err) == err = "canceled"

\* Line 170: !errors.Is(err, context.Canceled)
StartFailed(err) == ~IsCanceled(err)

\* Lines 170-174: m.Start returns.  It returns nil, or the cancellation a
\* component passed on, once its context is done, and the error of a
\* component that failed at any time; main logs "Manager failed" and exits
\* with 1, or returns
StartReturns ==
    /\ mainpc = "started"
    /\ \E err \in {"nil", "canceled", "failed"} :
          /\ err \in {"nil", "canceled"} => sigCtx
          /\ startErr' = <<err>>
          /\ exitCode' = IF StartFailed(err) THEN <<ExitFailure>> ELSE <<0>>
    /\ mainpc' = "exit-start"
    /\ UNCHANGED <<argv, loadTemplates, srvTpl, baseTpl, shutdownVars,
                   cluster, rootTpl, pagePtr, log, rendered, passVars, clientVars>>

\* Mutant: the controller and the server run from the start of main
ManagerStartedAtOnce == TRUE

\* Line 170: the reconciler and the HTTP server run inside m.Start
ManagerStarted == mainpc = "started"

NextStartup ==
    \/ ParseFlag
    \/ LoadTemplates
    \/ CloneTemplates
    \/ CreateManager
    \/ SetupSignalHandler
    \/ StartReturns
    \/ ManagerStarted /\ ReconcileList
    \/ ManagerStarted /\ ReconcileAggregate
    \/ ManagerStarted /\ ReconcileSort
    \/ ManagerStarted /\ ReconcileExecute
    \/ ManagerStarted /\ ReconcileSwap
    \/ ManagerStarted /\ \E r \in Readers : HandlerLoad(r)
    \/ ManagerStarted /\ \E r \in Readers : HandlerCopy(r)
    \/ ManagerStarted /\ \E r \in Readers : ReadyzCheck(r)
    \/ ManagerStarted /\ \E r \in Readers : ClientDone(r)

\* main from its first line: the flags, the template files, the manager,
\* then the passes and the requests, until m.Start returns
SpecStartup == InitStartup /\ [][NextStartup]_vars

\* ------------------------------------------- the errgroup of src/main.go
\* The first version of main runs the manager, the HTTP server and a signal
\* watcher as three goroutines of an errgroup (lines 104-139).
programVars == <<cluster, rootTpl, pagePtr, log, rendered, passVars, clientVars,
                 argv, loadTemplates, srvTpl, baseTpl, startErr>>

InitShutdown ==
    /\ srvCtx = "active"
    /\ grpErr = Nil
    /\ sigCtx = FALSE
    /\ gpc = [manager |-> "running", server |-> "starting", watcher |-> "select"]
    /\ server = "new"
    /\ shutdownCtx = "unset"
    /\ conn = [r \in Readers |-> "idle"]
    /\ mainpc = "wait"
    /\ exitCode = Nil
    /\ startErr = Nil
    /\ argv = <<>>
    /\ loadTemplates = ""
    /\ srvTpl = DefaultTemplates
    /\ baseTpl = Nil
    /\ cluster = <<>>
    /\ rootTpl = "default"
    /\ pagePtr = Nil
    /\ log = {}
    /\ rendered = {}
    /\ InitPass
    /\ InitClients

\* Mutant: a group context that is not a child of srvCtx
GrpCtxDoneOnError == grpErr # Nil

\* grpCtx is done when srvCtx is canceled or a goroutine returned an error
GrpCtxDone == srvCtx = "canceled" \/ grpErr # Nil

\* signal.NotifyContext(srvCtx, os.Interrupt, syscall.SIGTERM)
SigCtxDone == sigCtx \/ srvCtx = "canceled"

\* errgroup: the first error a goroutine returns is kept
GoReturns(err) == IF err # "nil" /\ grpErr = Nil THEN <<err>> ELSE grpErr

InFlight == {r \in Readers : conn[r] = "inflight"}

\* server.Close(): the connections of the requests in flight are closed
CloseConns == [r \in Readers |-> IF conn[r] = "inflight" THEN "reset" ELSE conn[r]]

\* INT or TERM is delivered to the process
Signal ==
    /\ exitCode = Nil
    /\ ~sigCtx
    /\ gpc.watcher # "returned"
    /\ sigCtx' = TRUE
    /\ UNCHANGED <<srvCtx, grpErr, gpc, server, shutdownCtx, conn, mainpc, exitCode,
                   programVars>>

\* Lines 107-111: m.Start(grpCtx) returns an error
ManagerFails ==
    /\ gpc.manager = "running"
    /\ gpc' = [gpc EXCEPT !.manager = "returned"]
    /\ srvCtx' = "canceled"
    /\ grpErr' = GoReturns("manager failed")
    /\ UNCHANGED <<sigCtx, server, shutdownCtx, conn, mainpc, exitCode, programVars>>

\* Lines 107-111: m.Start(grpCtx) returns because grpCtx is done
ManagerStops ==
    /\ gpc.manager = "running"
    /\ GrpCtxDone
    /\ \E err \in {"nil", "canceled"} : grpErr' = GoReturns(err)
    /\ gpc' = [gpc EXCEPT !.manager = "returned"]
    /\ srvCtx' = "canceled"
    /\ UNCHANGED <<sigCtx, server, shutdownCtx, conn, mainpc, exitCode, programVars>>

\* Line 115: server.ListenAndServe() is listening
ServerListens ==
    /\ gpc.server = "starting"
    /\ server = "new"
    /\ server' = "listening"
    /\ gpc' = [gpc EXCEPT !.server = "serving"]
    /\ UNCHANGED <<srvCtx, grpErr, sigCtx, shutdownCtx, conn, mainpc, exitCode,
                   programVars>>

\* Lines 115-117: ListenAndServe returns an error of its own
ServerFails ==
    /\ gpc.server \in {"starting", "serving"}
    /\ server \in {"new", "listening"}
    /\ gpc' = [gpc EXCEPT !.server = "returned"]
    /\ srvCtx' = "canceled"
    /\ grpErr' = GoReturns("listen failed")
    /\ UNCHANGED <<sigCtx, server, shutdownCtx, conn, mainpc, exitCode, programVars>>

\* Lines 113-118: ListenAndServe returns http.ErrServerClosed as soon as
\* Shutdown or Close was called; the goroutine returns nil and its deferred
\* cancelSrv runs
ServerReturns ==
    /\ gpc.server \in {"starting", "serving"}
    /\ server \in {"shutdown", "closed"}
    /\ gpc' = [gpc EXCEPT !.server = "returned"]
    /\ srvCtx' = "canceled"
    /\ UNCHANGED <<grpErr, sigCtx, server, shutdownCtx, conn, mainpc, exitCode,
                   programVars>>

\* Lines 127-134, the select.  On sigCtx.Done: shutdownCtx is made from
\* srvCtx with the timeout and server.Shutdown closes the listeners.  On
\* grpCtx.Done: the goroutine returns nil and its deferred server.Close and
\* cancelSrv run.  With both done the select takes either.
WatcherSelect ==
    /\ gpc.watcher = "select"
    /\ \/ /\ SigCtxDone
          /\ server' = IF server = "closed" THEN "closed" ELSE "shutdown"
          /\ shutdownCtx' = "running"
          /\ gpc' = [gpc EXCEPT !.watcher = "shutdown"]
          /\ UNCHANGED <<srvCtx, conn>>
       \/ /\ GrpCtxDone
          /\ server' = "closed"
          /\ conn' = CloseConns
          /\ srvCtx' = "canceled"
          /\ gpc' = [gpc EXCEPT !.watcher = "returned"]
          /\ UNCHANGED shutdownCtx
    /\ UNCHANGED <<grpErr, sigCtx, mainpc, exitCode, programVars>>

\* the timeout of shutdownCtx passes
TimerExpires ==
    /\ gpc.watcher = "shutdown"
    /\ shutdownCtx = "running"
    /\ shutdownCtx' = "expired"
    /\ UNCHANGED <<srvCtx, grpErr, sigCtx, gpc, server, conn, mainpc, exitCode,
                   programVars>>

\* Mutant: shutdownCtx made from context.Background(), which cancelSrv does
\* not cancel
ShutdownCtxCanceledNever == FALSE

\* Line 129: shutdownCtx is a child of srvCtx, canceled with it
ShutdownCtxCanceled == srvCtx = "canceled"

\* Lines 120-131: server.Shutdown returns nil once no request is in flight,
\* else ctx.Err() once shutdownCtx is done (canceled, or past its deadline);
\* then the deferred server.Close and cancelSrv run
ShutdownReturns ==
    /\ gpc.watcher = "shutdown"
    /\ \E err \in {"nil", "canceled", "deadline exceeded"} :
          /\ err = "nil" => InFlight = {}
          /\ err = "canceled" => InFlight # {} /\ ShutdownCtxCanceled
          /\ err = "deadline exceeded" => InFlight # {} /\ shutdownCtx = "expired"
          /\ grpErr' = GoReturns(err)
    /\ server' = "closed"
    /\ conn' = CloseConns
    /\ srvCtx' = "canceled"
    /\ gpc' = [gpc EXCEPT !.watcher = "returned"]
    /\ UNCHANGED <<sigCtx, shutdownCtx, mainpc, exitCode, programVars>>

\* a client's GET / is accepted and its handler (lines 92-101) starts
RequestStart(r) ==
    /\ server = "listening"
    /\ conn[r] = "idle"
    /\ conn' = [conn EXCEPT ![r] = "inflight"]
    /\ UNCHANGED <<srvCtx, grpErr, sigCtx, gpc, server, shutdownCtx, mainpc, exitCode,
                   programVars>>

\* the handler has written the page and returns
RequestComplete(r) ==
    /\ conn[r] = "inflight"
    /\ exitCode = Nil
    /\ conn' = [conn EXCEPT ![r] = "done"]
    /\ UNCHANGED <<srvCtx, grpErr, sigCtx, gpc, server, shutdownCtx, mainpc, exitCode,
                   programVars>>

\* Lines 136-139: grp.Wait() returns the first error once the three have
\* returned; main exits with 1 for an error other than context.Canceled
WaitReturns ==
    /\ mainpc = "wait"
    /\ gpc = [manager |-> "returned", server |-> "returned", watcher |-> "returned"]
    /\ mainpc' = "exit-wait"
    /\ exitCode' = IF grpErr # Nil /\ grpErr[1] # "canceled"
                   THEN <<ExitFailure>> ELSE <<0>>
    /\ UNCHANGED <<srvCtx, grpErr, sigCtx, gpc, server, shutdownCtx, conn, programVars>>

NextShutdown ==
    \/ Signal
    \/ ManagerFails
    \/ ManagerStops
    \/ ServerListens
    \/ ServerFails
    \/ ServerReturns
    \/ WatcherSelect
    \/ TimerExpires
    \/ ShutdownReturns
    \/ \E r \in Readers : RequestStart(r)
    \/ \E r \in Readers : RequestComplete(r)
    \/ WaitReturns

SpecShutdown == InitShutdown /\ [][NextShutdown]_vars

\* The same under the scheduling the Go runtime and the libraries give: a
\* goroutine that can go on does, m.Start returns once its context is done,
\* ListenAndServe returns once the server is shut down or closed, Shutdown
\* returns once no request is in flight or its context is done, and the
\* time of the shutdown timeout passes.  Nothing makes a signal arrive, a
\* component fail or a request complete.
SpecShutdownLive ==
    /\ SpecShutdown
    /\ WF_vars(ManagerStops)
    /\ WF_vars(ServerReturns)
    /\ WF_vars(WatcherSelect)
    /\ WF_vars(TimerExpires)
    /\ WF_vars(ShutdownReturns)
    /\ WF_vars(WaitReturns)

\* ================================================================ claims
PageRequestHandled(r) == rpc[r] = "idle" /\ rpc'[r] # "idle" /\ resp'[r].kind = "page"
ReadinessChecked(r) == rpc[r] = "idle" /\ rpc'[r] # "idle" /\ resp'[r].kind = "readyz"

\* C1: while no pass has completed successfully the pointer is nil, and every
\* GET / handled then is answered 404 at once and every readiness check
\* handled then reports the error.
C1_EmptyAnswersNotFound ==
    [][/\ (pagePtr = Nil) <=> ("First reconcile completed" \notin log)
       /\ pagePtr = Nil =>
             \A r \in Readers :
                /\ PageRequestHandled(r) =>
                      /\ resp'[r].status = StatusNotFound
                      /\ rpc'[r] = "done"
                /\ ReadinessChecked(r) => resp'[r].err # ""]_vars

C1_Witness ==
    /\ pagePtr = Nil
    /\ result = "error"
    /\ \E r1, r2 \in Readers :
          /\ resp[r1].kind = "page"
          /\ resp[r1].status = StatusNotFound
          /\ resp[r2].kind = "readyz"
          /\ resp[r2].err = "page not rendered"

\* C2: once the pointer is non-nil every step leaves it non-nil, every GET /
\* handled from then on gets status 200 and every readiness check passes.
C2_ReadyNeverEmpty ==
    [][pagePtr # Nil =>
          /\ pagePtr' # Nil
          /\ \A r \in Readers :
                /\ PageRequestHandled(r) => resp'[r].status = StatusOK
                /\ ReadinessChecked(r) => resp'[r].err = ""]_vars

C2_Witness ==
    /\ pagePtr # Nil
    /\ result = "error"
    /\ fault = "render"
    /\ \E r1, r2 \in Readers :
          /\ rpc[r1] = "done"
          /\ resp[r1].kind = "page"
          /\ resp[r1].status = StatusOK
          /\ resp[r2].kind = "readyz"
          /\ resp[r2].err = ""

\* C3: a pass in which List failed, the aggregation panicked or the page
\* template failed has ended, has returned an error, and the pointer is what
\* it was when that pass started.
C3_FailedPassKeepsView ==
    fault # "none" =>
        /\ pc = "idle"
        /\ result = "error"
        /\ pagePtr = before

C3_Witness ==
    /\ fault = "render"
    /\ result = "error"
    /\ pagePtr # Nil
    /\ \E r \in Readers : rpc[r] = "done" /\ resp[r].body = pagePtr[1]

Complete(doc) == Len(doc) >= 2 /\ doc[1] = Prolog /\ doc[Len(doc)] = Epilog

\* C4: the pointer and every body a handler has written hold one whole
\* document that one error-free execution of the page template produced.
C4_ReadersSeeWholeDocuments ==
    /\ pagePtr # Nil => Complete(pagePtr[1]) /\ pagePtr[1] \in rendered
    /\ \A r \in Readers :
          (rpc[r] = "done" /\ resp[r].kind = "page" /\ resp[r].status = StatusOK) =>
              Complete(resp[r].body) /\ resp[r].body \in rendered

\* a handler wrote the previous document while the new one is already in place
C4_Witness ==
    /\ pagePtr # Nil
    /\ \E r1, r2 \in Readers :
          /\ rpc[r1] = "done" /\ resp[r1].status = StatusOK
          /\ rpc[r2] = "done" /\ resp[r2].status = StatusOK
          /\ resp[r1].body # pagePtr[1]
          /\ resp[r2].body = pagePtr[1]

\* C5: a handler that found a page answers 200, text/html, and the body it
\* writes is the string its one Load returned, which was the pointer's value
\* at that moment.
C5_BodyIsLoadedDocument ==
    [][\A r \in Readers :
          /\ (pagePtr # Nil /\ PageRequestHandled(r)) =>
                /\ rpc'[r] = "loaded"
                /\ rpage'[r] = pagePtr
                /\ resp'[r].status = StatusOK
                /\ resp'[r].ctype = "text/html"
          /\ (rpc[r] = "loaded" /\ rpc'[r] = "done") =>
                /\ resp'[r].kind = "page"
                /\ resp'[r].status = StatusOK
                /\ resp'[r].ctype = "text/html"
                /\ resp'[r].body = rpage[r][1]
                /\ rpage'[r] = rpage[r]]_vars

C5_Witness ==
    \E r \in Readers :
        /\ rpc[r] = "done"
        /\ resp[r].status = StatusOK
        /\ resp[r].ctype = "text/html"
        /\ Len(resp[r].body) > 2
        /\ resp[r].body = rpage[r][1]
        /\ pagePtr # rpage[r]

\* ------------------------------------------------ what a record set names
NotSkipped(items) == {k \in DOMAIN items : Annotation(items[k], skipAnnotation) # "true"}

\* the rules of the records that are not skipped, as <<record index, rule index>>
RulesOf(items) ==
    UNION {{<<k, n>> : n \in DOMAIN items[k].Spec.Rules} : k \in NotSkipped(items)}

RuleAt(items, kr) == items[kr[1]].Spec.Rules[kr[2]]

NamedHosts(items) ==
    {RuleAt(items, kr).Host : kr \in RulesOf(items)} \ {<<>>}

\* the path strings a rule contributes: those of its Exact and Prefix items
RulePaths(rule) ==
    IF rule.HTTP = Nil THEN {}
    ELSE {rule.HTTP[1].Paths[n].Path :
             n \in {m \in DOMAIN rule.HTTP[1].Paths :
                       /\ rule.HTTP[1].Paths[m].PathType \in {<<"Exact">>, <<"Prefix">>}
                       /\ rule.HTTP[1].Paths[m].Path # <<>>}}

ContributedPaths(items, h) ==
    UNION {RulePaths(RuleAt(items, kr)) : kr \in {x \in RulesOf(items) : RuleAt(items, x).Host = h}}

\* C7 (as claimed): a pass over a single record with a single rule that has a
\* host and no HTTP section returns without error and publishes the document
\* with exactly the one link to https://<host>.
HostOnlyCluster ==
    /\ Len(cluster) = 1
    /\ NotSkipped(cluster) = {1}
    /\ Annotation(cluster[1], hostTemplateAnnotation) = ""
    /\ Len(cluster[1].Spec.Rules) = 1
    /\ cluster[1].Spec.Rules[1].Host # <<>>
    /\ cluster[1].Spec.Rules[1].HTTP = Nil

C7_HostOnlyRulePublished ==
    (HostOnlyCluster /\ pc = "idle" /\ result # "none" /\ fault # "list") =>
        /\ result = "ok"
        /\ pagePtr = <<<<Prolog,
                         [class |-> "host",
                          href |-> HTTPS \o cluster[1].Spec.Rules[1].Host,
                          text |-> cluster[1].Spec.Rules[1].Host],
                         Epilog>>>>

\* C8: with the record set and the startup templates frozen, the page a pass
\* has rendered is the page the pass before it published, and a pass fails
\* after a page was published only when List failed.
C8_SamePageEveryPass ==
    /\ (pc = "executed" /\ pagePtr # Nil) => page = pagePtr[1]
    /\ pagePtr # Nil => fault \in {"none", "list"}

\* two hosts, so the map has two iteration orders, rendered a second time
C8_Witness ==
    /\ pc = "executed"
    /\ pagePtr # Nil
    /\ Len(hostsList) = 2
    /\ page = pagePtr[1]

\* C9: the sorted slice of a pass holds exactly one entry per host named by a
\* rule of a record that is not skipped, and the keys of its path map are the
\* path strings that the rules naming that host contribute.
C9_OneEntryPerHostWithAllPaths ==
    pc = "sorted" =>
        /\ \A h \in NamedHosts(is) :
              Cardinality({i \in DOMAIN hostsList : hostsList[i].Host = h}) = 1
        /\ \A i \in DOMAIN hostsList :
              DOMAIN hostsList[i].Paths = ContributedPaths(is, hostsList[i].Host)

\* two rules of different records name one host, and each gives a path the
\* other does not
C9_Witness ==
    /\ pc = "sorted"
    /\ \E x, y \in RulesOf(is) :
          /\ x[1] # y[1]
          /\ RuleAt(is, x).Host = RuleAt(is, y).Host
          /\ RuleAt(is, x).Host # <<>>
          /\ RulePaths(RuleAt(is, x)) \ RulePaths(RuleAt(is, y)) # {}
          /\ RulePaths(RuleAt(is, y)) \ RulePaths(RuleAt(is, x)) # {}
          /\ \E i \in DOMAIN hostsList :
                /\ hostsList[i].Host = RuleAt(is, x).Host
                /\ DOMAIN hostsList[i].Paths =
                      RulePaths(RuleAt(is, x)) \cup RulePaths(RuleAt(is, y))

\* s before t in byte order: a proper prefix, or smaller at the first difference
SegmentBefore(s, t) ==
    \E k \in 0..Len(s) :
        /\ k <= Len(t)
        /\ \A i \in 1..k : s[i] = t[i]
        /\ \/ k = Len(s) /\ k < Len(t)
           \/ k < Len(s) /\ k < Len(t) /\ s[k + 1] < t[k + 1]

\* a before b by segments from the right: the last k segments agree and then
\* a has run out of segments, or a's next segment is the smaller one
RightToLeftBefore(a, b) ==
    LET x == Split(a)
        y == Split(b)
    IN \E k \in 0..Len(x) :
          /\ k <= Len(y)
          /\ \A i \in 0..(k - 1) : x[Len(x) - i] = y[Len(y) - i]
          /\ \/ k = Len(x) /\ k < Len(y)
             \/ k < Len(x) /\ k < Len(y) /\ SegmentBefore(x[Len(x) - k], y[Len(y) - k])

ListedHosts == [i \in DOMAIN hostsList |-> hostsList[i].Host]

\* C10: in the sorted slice every host comes before every later one in the
\* right-to-left segment order, a host whose segments are the tail of
\* another's first; the four hosts of the example come out as example.com,
\* a.example.com, b.example.com, zzz.org.
C10_HostsOrderedRightToLeft ==
    pc = "sorted" =>
        /\ \A i, j \in DOMAIN hostsList :
              i < j => RightToLeftBefore(hostsList[i].Host, hostsList[j].Host)
        /\ NamedHosts(is) = ExampleHosts =>
              ListedHosts = <<ExampleCom, AExampleCom, BExampleCom, ZzzOrg>>

C10_Witness ==
    /\ pc = "sorted"
    /\ NamedHosts(is) = ExampleHosts
    /\ ListedHosts = <<ExampleCom, AExampleCom, BExampleCom, ZzzOrg>>

\* ------------------------------------------------------- skip annotation
NotMarkedSkip(item) == Annotation(item, skipAnnotation) # "true"

\* the host and path strings the rules of one record name
RecordHosts(item) == {item.Spec.Rules[n].Host : n \in DOMAIN item.Spec.Rules} \ {<<>>}

RecordPaths(item, h) ==
    UNION {RulePaths(item.Spec.Rules[n]) :
              n \in {m \in DOMAIN item.Spec.Rules : item.Spec.Rules[m].Host = h}}

\* C11: the aggregate of a pass is the aggregate of the listed records with
\* those whose skip annotation is exactly "true" taken out (they give no
\* host, no path and no display text), and every record whose skip
\* annotation is absent or has another value has all its hosts and paths in
\* the aggregate.
C11_SkipAnnotation ==
    pc = "sorted" =>
        /\ hosts = Aggregate(SelectSeq(is, NotMarkedSkip)).hosts
        /\ (\A k \in DOMAIN is : ~NotMarkedSkip(is[k])) => hosts = <<>>
        /\ \A k \in DOMAIN is :
              NotMarkedSkip(is[k]) =>
                  \A h \in RecordHosts(is[k]) :
                      /\ h \in DOMAIN hosts
                      /\ RecordPaths(is[k], h) \subseteq DOMAIN hosts[h].Paths

\* a skipped record with rules and both overrides next to a record marked
\* "false": the first one's host is missing, the second one's is there with
\* its own paths only and without display text
C11_Witness ==
    /\ pc = "sorted"
    /\ Len(is) = 2
    /\ Annotation(is[1], skipAnnotation) = "true"
    /\ Annotation(is[1], hostTemplateAnnotation) # ""
    /\ Annotation(is[2], skipAnnotation) = "false"
    /\ RecordHosts(is[1]) \ DOMAIN hosts # {}
    /\ \E h \in RecordHosts(is[1]) \cap RecordHosts(is[2]) :
          /\ RecordPaths(is[1], h) \ RecordPaths(is[2], h) # {}
          /\ DOMAIN hosts[h].Paths = RecordPaths(is[2], h)
          /\ hosts[h].Text = <<>>

\* ----------------------------------------------------- root-path suppression
RootPath == <<Slash>>

RootLink(h) == HTTPS \o URLEscape(h) \o RootPath

\* C12: a host's entry stores "/" exactly when a rule contributes it, and no
\* path link of the rendered or the published document points to
\* https://<host>/ for any host.
C12_RootPathStoredNotLinked ==
    /\ pc = "executed" =>
          \A i \in DOMAIN hostsList :
              /\ (RootPath \in DOMAIN hostsList[i].Paths)
                     <=> (RootPath \in ContributedPaths(is, hostsList[i].Host))
              /\ \A n \in DOMAIN page :
                     page[n].class = "path" => page[n].href # RootLink(hostsList[i].Host)
    /\ pagePtr # Nil =>
          \A n \in DOMAIN pagePtr[1] :
              pagePtr[1][n].class = "path" =>
                  \A h \in NamedHosts(cluster) : pagePtr[1][n].href # RootLink(h)

\* a host whose "/" was stored with a display text of its own, next to a
\* path that is linked
C12_Witness ==
    /\ pc = "executed"
    /\ \E i \in DOMAIN hostsList :
          /\ RootPath \in DOMAIN hostsList[i].Paths
          /\ hostsList[i].Paths[RootPath].Text # <<>>
          /\ \E n \in DOMAIN page :
                /\ page[n].class = "path"
                /\ page[n].href = RootLink(hostsList[i].Host) \o <<97>>

\* ------------------------------------------------------------ bad overrides
BadOverride(item, key) == Annotation(item, key) # "" /\ ParseFails(Annotation(item, key))

\* a rule of a record that is not skipped names a host and has no HTTP section
HasHostOnlyRule(items) ==
    \E kr \in RulesOf(items) : RuleAt(items, kr).Host # <<>> /\ RuleAt(items, kr).HTTP = Nil

\* some record that is not skipped names the host and has a host template
\* that parses and renders
HostTextGiven(items, h) ==
    \E k \in NotSkipped(items) :
        /\ h \in RecordHosts(items[k])
        /\ ParseOverride(Annotation(items[k], hostTemplateAnnotation)) # Nil
        /\ ~ExecuteHostTemplate(Annotation(items[k], hostTemplateAnnotation), h).err

PathTextGiven(items, h, p) ==
    \E k \in NotSkipped(items) :
        /\ p \in RecordPaths(items[k], h)
        /\ ParseOverride(Annotation(items[k], pathTemplateAnnotation)) # Nil

HasLink(doc, class, href) ==
    \E n \in DOMAIN doc : doc[n].class = class /\ doc[n].href = href

LinkTexts(doc, class, href) ==
    {doc[n].text : n \in {m \in DOMAIN doc : doc[m].class = class /\ doc[m].href = href}}

\* C13: a pass in which List succeeded over records of which one (not
\* skipped, naming a host) has a host or path template that does not parse,
\* and none has a host-only rule, returns without error; the published
\* document links every host and every non-root path of that record, and the
\* text of such a link is the plain host name (path string) unless another
\* record gives that host (path) a display text.
C13_BadOverrideFallsBack ==
    (pc = "idle" /\ result # "none" /\ fault # "list" /\ ~HasHostOnlyRule(cluster)) =>
        \A k \in NotSkipped(cluster) :
            ((BadOverride(cluster[k], hostTemplateAnnotation)
                 \/ BadOverride(cluster[k], pathTemplateAnnotation))
              /\ RecordHosts(cluster[k]) # {}) =>
                /\ result = "ok"
                /\ pagePtr # Nil
                /\ \A h \in RecordHosts(cluster[k]) :
                      /\ HasLink(pagePtr[1], "host", HTTPS \o h)
                      /\ ~HostTextGiven(cluster, h) =>
                            LinkTexts(pagePtr[1], "host", HTTPS \o h) = {h}
                      /\ \A p \in RecordPaths(cluster[k], h) \ {RootPath} :
                            /\ HasLink(pagePtr[1], "path", HTTPS \o h \o p)
                            /\ ~PathTextGiven(cluster, h, p) =>
                                  LinkTexts(pagePtr[1], "path", HTTPS \o h \o p) = {p}

\* one record whose two templates both fail to parse, published with the
\* plain host and path as texts
C13_Witness ==
    /\ pc = "idle"
    /\ result = "ok"
    /\ Len(cluster) = 1
    /\ BadOverride(cluster[1], hostTemplateAnnotation)
    /\ BadOverride(cluster[1], pathTemplateAnnotation)
    /\ pagePtr # Nil
    /\ \E h \in RecordHosts(cluster[1]) :
          /\ LinkTexts(pagePtr[1], "host", HTTPS \o h) = {h}
          /\ \E p \in RecordPaths(cluster[1], h) \ {RootPath} :
                LinkTexts(pagePtr[1], "path", HTTPS \o h \o p) = {p}

\* ------------------------------------------------------ the document's links
Links(doc) == SubSeq(doc, 2, Len(doc) - 1)

HostPositions(links) == {n \in DOMAIN links : links[n].class = "host"}

\* where the i-th host link is
NthHost(links, i) ==
    CHOOSE n \in HostPositions(links) :
        Cardinality({m \in HostPositions(links) : m < n}) = i - 1

DisplayText(text, plain) == IF text # <<>> THEN text ELSE plain

WantedPathLinks(hv) ==
    {[class |-> "path", href |-> HTTPS \o hv.Host \o p,
      text |-> DisplayText(hv.Paths[p].Text, p)] : p \in DOMAIN hv.Paths \ {RootPath}}

\* C17: the rendered document is the static head, then for the i-th entry of
\* the sorted slice the i-th host link (target https://<host>, text the
\* override or the host), followed up to the next host link by exactly one
\* path link per non-root path of that entry (target https://<host><path>,
\* text the override or the path), then the static tail; nothing else.
C17_DocumentLinks ==
    pc = "executed" =>
        LET links == Links(page)
        IN /\ Complete(page)
           /\ \A n \in DOMAIN links : links[n].class \in {"host", "path"}
           /\ Cardinality(HostPositions(links)) = Len(hostsList)
           /\ links # <<>> => 1 \in HostPositions(links)
           /\ \A i \in DOMAIN hostsList :
                 LET hv == hostsList[i]
                     n == NthHost(links, i)
                     next == IF i = Len(hostsList) THEN Len(links) + 1
                             ELSE NthHost(links, i + 1)
                 IN /\ links[n] = [class |-> "host", href |-> HTTPS \o hv.Host,
                                   text |-> DisplayText(hv.Text, hv.Host)]
                    /\ {links[m] : m \in (n + 1)..(next - 1)} = WantedPathLinks(hv)
                    /\ next - n - 1 = Cardinality(WantedPathLinks(hv))

\* two hosts: one with an override text, a stored "/" and a linked path with
\* an override text, one with plain texts
C17_Witness ==
    /\ pc = "executed"
    /\ Len(hostsList) = 2
    /\ \E i, j \in DOMAIN hostsList :
          /\ hostsList[i].Text # <<>>
          /\ RootPath \in DOMAIN hostsList[i].Paths
          /\ \E p \in DOMAIN hostsList[i].Paths \ {RootPath} : hostsList[i].Paths[p].Text # <<>>
          /\ hostsList[j].Text = <<>>
          /\ \E p \in DOMAIN hostsList[j].Paths : hostsList[j].Paths[p].Text = <<>>
    /\ Len(page) >= 6

\* --------------------------------------------------------- display texts
\* list order of <<record index, rule index>> pairs
Earlier(x, y) == x[1] < y[1] \/ (x[1] = y[1] /\ x[2] < y[2])

HostTemplateOf(items, kr) == Annotation(items[kr[1]], hostTemplateAnnotation)

\* the rules that name the host in a record whose host template renders
HostTextGivers(items, h) ==
    {kr \in RulesOf(items) :
        /\ RuleAt(items, kr).Host = h
        /\ HostTemplateOf(items, kr) \in {"x{{.Host}}", "y{{.Host}}", DefineHostlink}}

\* what the template of that record renders for the host: its first letter
\* in front of the host name
GivenHostText(items, kr, h) ==
    (IF HostTemplateOf(items, kr) = "y{{.Host}}" THEN <<121>> ELSE <<120>>) \o h

\* C18 (as claimed): the display text of a host entry is the one rendered by
\* the first rule, in list order, of a record whose host template renders.
C18_HostTextFirstWins ==
    pc = "sorted" =>
        \A i \in DOMAIN hostsList :
            LET h == hostsList[i].Host
                givers == HostTextGivers(is, h)
            IN IF givers = {} THEN hostsList[i].Text = <<>>
               ELSE \E kr \in givers :
                       /\ \A x \in givers : x = kr \/ Earlier(kr, x)
                       /\ hostsList[i].Text = GivenHostText(is, kr, h)

\* C18 (amended): the display text of a host entry is the one rendered by
\* the last rule, in list order, of a record whose host template renders;
\* every such rule replaces the text set before it.
C18_HostTextLastWins ==
    pc = "sorted" =>
        \A i \in DOMAIN hostsList :
            LET h == hostsList[i].Host
                givers == HostTextGivers(is, h)
            IN IF givers = {} THEN hostsList[i].Text = <<>>
               ELSE \E kr \in givers :
                       /\ \A x \in givers : x = kr \/ Earlier(x, kr)
                       /\ hostsList[i].Text = GivenHostText(is, kr, h)

\* two records name host "b", the first with the "x" template and the
\* second with the "y" template: the entry's text is "yb"
C18_Witness ==
    /\ pc = "sorted"
    /\ Len(is) = 2
    /\ <<98>> \in RecordHosts(is[1]) \cap RecordHosts(is[2])
    /\ Annotation(is[1], hostTemplateAnnotation) = "x{{.Host}}"
    /\ Annotation(is[2], hostTemplateAnnotation) = "y{{.Host}}"
    /\ NotSkipped(is) = {1, 2}
    /\ \E i \in DOMAIN hostsList :
          hostsList[i].Host = <<98>> /\ hostsList[i].Text = <<121, 98>>

\* the path items, as <<record, rule, item>>, that give path p to host h
PathContributions(items, h, p) ==
    UNION {{<<kr[1], kr[2], m>> :
               m \in {n \in DOMAIN RuleAt(items, kr).HTTP[1].Paths :
                         /\ RuleAt(items, kr).HTTP[1].Paths[n].Path = p
                         /\ RuleAt(items, kr).HTTP[1].Paths[n].PathType
                               \in {<<"Exact">>, <<"Prefix">>}}} :
           kr \in {x \in RulesOf(items) : /\ RuleAt(items, x).Host = h
                                          /\ RuleAt(items, x).HTTP # Nil}}

EarlierItem(x, y) ==
    \/ x[1] < y[1]
    \/ x[1] = y[1] /\ x[2] < y[2]
    \/ x[1] = y[1] /\ x[2] = y[2] /\ x[3] < y[3]

FirstContribution(items, h, p) ==
    CHOOSE c \in PathContributions(items, h, p) :
        \A x \in PathContributions(items, h, p) : x = c \/ EarlierItem(c, x)

PathTemplateOf(items, c) == Annotation(items[c[1]], pathTemplateAnnotation)

\* what the path template of the contributing record renders for the path
GivenPathText(items, c, p) ==
    CASE PathTemplateOf(items, c) = "p{{.Path.Path}}" -> <<112>> \o p
      [] PathTemplateOf(items, c) = "q{{.Path.Path}}" -> <<113>> \o p
      [] OTHER -> <<>>

\* the path templates a pass over the items executed for path p of host h
PathTemplateRuns(items, h, p) ==
    LET execs == Aggregate(items).execs
    IN {m \in DOMAIN execs : execs[m].host = h /\ execs[m].path = p}

\* C19: every stored path has the display text its first contribution in
\* list order gives it (that record's path template rendered for it, or
\* none), and the only path template executed for it in the pass is that
\* first record's, once, if it has one that parses.
C19_PathTextFirstWins ==
    pc = "sorted" =>
        \A i \in DOMAIN hostsList :
            \A p \in DOMAIN hostsList[i].Paths :
                LET h == hostsList[i].Host
                    first == FirstContribution(is, h, p)
                    runs == PathTemplateRuns(is, h, p)
                IN /\ PathContributions(is, h, p) # {}
                   /\ hostsList[i].Paths[p].Text = GivenPathText(is, first, p)
                   /\ IF PathTemplateOf(is, first) \in {"", "{{"}
                      THEN runs = {}
                      ELSE /\ Cardinality(runs) = 1
                           /\ \A m \in runs :
                                 Aggregate(is).execs[m].tpl = PathTemplateOf(is, first)

\* "/a" of host "b" comes from two records, the first with the "p" template
\* and the second with another one that parses: the text is "p/a" and one
\* template ran for it
C19_Witness ==
    /\ pc = "sorted"
    /\ Len(is) = 2
    /\ NotSkipped(is) = {1, 2}
    /\ <<47, 97>> \in RecordPaths(is[1], <<98>>) \cap RecordPaths(is[2], <<98>>)
    /\ Annotation(is[1], pathTemplateAnnotation) = "p{{.Path.Path}}"
    /\ Annotation(is[2], pathTemplateAnnotation) \in {"q{{.Path.Path}}", "{{.Nope}}"}
    /\ \E i \in DOMAIN hostsList :
          /\ hostsList[i].Host = <<98>>
          /\ hostsList[i].Paths[<<47, 97>>].Text = <<112, 47, 97>>
    /\ Cardinality(PathTemplateRuns(is, <<98>>, <<47, 97>>)) = 1

\* ---------------------------------------------------------------- path kinds
Resolvable(path) == path.PathType \in {<<"Exact">>, <<"Prefix">>} /\ path.Path # <<>>

\* C20: every rule (of a record that is not skipped) that names a host has
\* that host in the aggregate, with the path string of each of its items of
\* kind Exact or Prefix and non-empty path; and every stored path is the
\* non-empty path string of such an item of a rule naming the host, so an
\* item of unset or another kind, or without a path string, gives none.
C20_PathKinds ==
    pc = "sorted" =>
        /\ \A kr \in RulesOf(is) :
              LET rule == RuleAt(is, kr)
              IN rule.Host # <<>> =>
                    /\ rule.Host \in DOMAIN hosts
                    /\ \A m \in DOMAIN rule.HTTP[1].Paths :
                          Resolvable(rule.HTTP[1].Paths[m]) =>
                              rule.HTTP[1].Paths[m].Path \in DOMAIN hosts[rule.Host].Paths
        /\ \A h \in DOMAIN hosts :
              \A p \in DOMAIN hosts[h].Paths :
                  p # <<>> /\ PathContributions(is, h, p) # {}

\* one rule with a Prefix "/a", a "/b" of another kind, a "/c" of unset kind
\* and an Exact item without a path: the host is there with "/a" only
C20_Witness ==
    /\ pc = "sorted"
    /\ Len(is) = 1
    /\ \E kr \in RulesOf(is) :
          LET rule == RuleAt(is, kr)
          IN /\ rule.Host # <<>>
             /\ \E m \in DOMAIN rule.HTTP[1].Paths :
                   rule.HTTP[1].Paths[m].PathType = Nil
             /\ \E m \in DOMAIN rule.HTTP[1].Paths :
                   rule.HTTP[1].Paths[m].PathType = <<"ImplementationSpecific">>
             /\ \E m \in DOMAIN rule.HTTP[1].Paths :
                   rule.HTTP[1].Paths[m].Path = <<>>
             /\ DOMAIN hosts[rule.Host].Paths = {<<47, 97>>}

\* ------------------------------------------------------------------ startup
\* a step of flag.Parse handling the value s
FlagHandled(s) == mainpc = "flags" /\ argv # <<>> /\ s = Head(argv)

\* the part before the first "=" and the part after it
BeforeEquals(s) == SubSeq(s, 1, Min({i \in DOMAIN s : s[i] = Equals}) - 1)
AfterEquals(s) == SubSeq(s, Min({i \in DOMAIN s : s[i] = Equals}) + 1, Len(s))
HasEquals(s) == \E i \in DOMAIN s : s[i] = Equals

\* an angle bracket, a quote, an ampersand, white space or a control character
ClaimedBareName(name) ==
    \E i \in DOMAIN name :
        \/ name[i] \in {60, 62, 34, 39, 38}
        \/ name[i] \in {9, 10, 11, 12, 13, 32}
        \/ name[i] < 32 \/ name[i] = 127

\* those, or a curly brace
BareName(name) == ClaimedBareName(name) \/ \E i \in DOMAIN name : name[i] \in {123, 125}

\* the text the value gives to a template
FlagText(s) == IF ~HasEquals(s) \/ BareName(BeforeEquals(s)) THEN s ELSE AfterEquals(s)

\* C15: a --template value whose text does not parse, and a --load-templates
\* pattern whose file does not parse (or that matches no file), end the
\* process with a non-zero status at that point of main; and no step taken
\* before m.Start, or after the exit, is a step of a reconcile pass or of a
\* request: the pointer, the pass and the clients stay as they were.
C15_TemplateFailureIsFatal ==
    [][/\ (\E s \in TemplateArgs : FlagHandled(s) /\ Unclosed(FlagText(s))) =>
             mainpc' = "exit-flag" /\ exitCode' # Nil /\ exitCode'[1] # 0
       /\ (mainpc = "flags" /\ argv = <<>> /\ loadTemplates \in {"bad", "nomatch"}) =>
             mainpc' = "exit-glob" /\ exitCode' # Nil /\ exitCode'[1] # 0
       /\ mainpc # "started" =>
             /\ UNCHANGED <<pagePtr, log, rendered, passVars, clientVars>>
             /\ pagePtr = Nil /\ pc = "idle" /\ result = "none"
             /\ \A r \in Readers : rpc[r] = "idle" /\ resp[r] = NoResponse
       /\ exitCode # Nil => UNCHANGED vars]_vars

\* the second value failed to parse after the first had changed the set
C15_Witness ==
    /\ mainpc = "exit-flag"
    /\ exitCode = <<ExitFlagError>>
    /\ Len(argv) = 1
    /\ Unclosed(FlagText(Head(argv)))
    /\ srvTpl # DefaultTemplates
    /\ pagePtr = Nil /\ pc = "idle" /\ result = "none"

C14_CloseAfterRequestsOrTimeout ==
    [][(sigCtx /\ grpErr = Nil /\ server # "closed" /\ server' = "closed") =>
           (InFlight = {} \/ shutdownCtx = "expired")]_vars

\* ------------------------------------------------- aggregate invariants
\* the entries of the aggregate a pass has built: the map's values, and the
\* sorted slice once it exists
Entries == {hosts[h] : h \in DOMAIN hosts} \cup {hostsList[i] : i \in DOMAIN hostsList}

\* C21: in the aggregate a pass has built, no two entries have one hostname
\* (the map has each entry under its own hostname, the sorted slice has each
\* hostname once), no entry has the empty hostname, and every entry's
\* hostname is the hostname of a rule of a record of the pass's own snapshot
\* that is not skipped.
C21_AggregateInvariants ==
    pc \in {"aggregated", "sorted"} =>
        /\ \A h \in DOMAIN hosts : hosts[h].Host = h
        /\ \A i, j \in DOMAIN hostsList :
              hostsList[i].Host = hostsList[j].Host => i = j
        /\ pc = "sorted" => {hostsList[i] : i \in DOMAIN hostsList} = {hosts[h] : h \in DOMAIN hosts}
        /\ \A e \in Entries : e.Host # <<>> /\ e.Host \in NamedHosts(is)

\* the pass runs over the fourth revision after the third was published:
\* host "b" is linked in the published page and named only by a skipped
\* record now, one rule has no host, and the aggregate has "a.b" alone
C21_Witness ==
    /\ pc = "sorted"
    /\ is = Revisions[4]
    /\ pagePtr # Nil
    /\ HasLink(pagePtr[1], "host", HTTPS \o <<98>>)
    /\ \E k \in DOMAIN is : ~NotMarkedSkip(is[k]) /\ <<98>> \in RecordHosts(is[k])
    /\ \E kr \in RulesOf(is) : RuleAt(is, kr).Host = <<>>
    /\ ListedHosts = <<<<97, 46, 98>>>>

\* ------------------------------------------------- override isolation
\* the records of the pass whose annotation `key` holds a text that parses
Overriding(items, key) ==
    {k \in NotSkipped(items) :
        Annotation(items[k], key) # "" /\ ~ParseFails(Annotation(items[k], key))}

\* C22: no step of a pass changes the startup template set: the page
\* template set the document is rendered from (srvTpl), what it renders
\* (rootTpl), and the set every record's templates are cloned from (baseTpl)
\* are after the step what they were before it, whatever the annotations of
\* the records define.
C22_OverridesLeaveStartupSet ==
    [][/\ srvTpl' = srvTpl
       /\ rootTpl' = rootTpl
       /\ baseTpl' = baseTpl]_vars

\* a pass has made the templates of two records, the first of which defines
\* the block "hostlink" in its host template: the clone has the block and
\* the root of the annotation, the set cloned from has neither, and the
\* second record's host text is the one its own template gives
C22_Witness ==
    /\ pc = "aggregated"
    /\ Len(is) = 2
    /\ Overriding(is, hostTemplateAnnotation) = {1, 2}
    /\ Annotation(is[1], hostTemplateAnnotation) = DefineHostlink
    /\ Annotation(is[2], hostTemplateAnnotation) = "y{{.Host}}"
    /\ CloneParse(baseTpl, DefineHostlink).clone[HostlinkName].origin = "annotation"
    /\ CloneParse(baseTpl, DefineHostlink).clone[RootName].origin = "annotation"
    /\ baseTpl = TemplatesOf(rootTpl)
    /\ srvTpl = TemplatesOf(rootTpl)
    /\ \E h \in DOMAIN hosts : hosts[h].Text = <<121>> \o h

\* ------------------------------------------------- the order of the hosts
\* C23: on the hostnames of a pass the comparator given to sort.Slice is a
\* strict total order (no host before itself, never both a before b and b
\* before a, a before c whenever a before b and b before c, and of two
\* different hosts one before the other), and the sorted slice is the same
\* for every order in which the map's values are collected.
C23_ComparatorStrictTotalOrder ==
    pc = "sorted" =>
        /\ \A a \in DOMAIN hosts : ~HostLess(a, a)
        /\ \A a, b \in DOMAIN hosts : HostLess(a, b) => ~HostLess(b, a)
        /\ \A a, b, c \in DOMAIN hosts :
              (HostLess(a, b) /\ HostLess(b, c)) => HostLess(a, c)
        /\ \A a, b \in DOMAIN hosts : a # b => (HostLess(a, b) \/ HostLess(b, a))
        /\ \A order \in Orders(DOMAIN hosts) :
              SortSlice(Collect(hosts, order)) = hostsList

\* three hosts of one, two and three segments, two of them with the same
\* last segment and one a parent of another, sorted
C23_Witness ==
    /\ pc = "sorted"
    /\ DOMAIN hosts = {<<97, 98>>, <<98, 46, 97>>, <<97, 46, 98, 46, 97>>}
    /\ ListedHosts = <<<<98, 46, 97>>, <<97, 46, 98, 46, 97>>, <<97, 98>>>>
    /\ Cardinality(Orders(DOMAIN hosts)) = 6

\* ------------------------------------------------- record-order independence
\* the orderings of a list of records
Orderings(items) ==
    {[i \in DOMAIN items |-> items[o[i]]] : o \in Orders(DOMAIN items)}

\* what a document links to, in order: each piece without its text
Structure(doc) == [n \in DOMAIN doc |-> [class |-> doc[n].class, href |-> doc[n].href]]

\* the documents a pass over the items can render, by the map's iteration order
Documents(tpl, items) ==
    {Execute(tpl, SortSlice(Collect(Aggregate(items).hosts, o))).out :
        o \in Orders(DOMAIN Aggregate(items).hosts)}

\* C24: for every other ordering of the records a pass has listed, the
\* aggregate has the same hostnames and the same path strings under each of
\* them, and the document has the same host and path links in the same order;
\* the texts may differ.
C24_RecordOrderIndependence ==
    pc = "sorted" =>
        \A other \in Orderings(is) :
            /\ ~Aggregate(other).panic
            /\ DOMAIN Aggregate(other).hosts = DOMAIN hosts
            /\ \A h \in DOMAIN hosts :
                  DOMAIN Aggregate(other).hosts[h].Paths = DOMAIN hosts[h].Paths
            /\ \A doc \in Documents(rootTpl, other) :
                  Structure(doc) = Structure(Execute(rootTpl, hostsList).out)

\* three records, two of which name one host and give it different paths and
\* different texts: some other ordering gives another text and the same links
C24_Witness ==
    /\ pc = "sorted"
    /\ Len(is) = 3
    /\ \E x, y \in RulesOf(is) :
          /\ x[1] # y[1]
          /\ RuleAt(is, x).Host = RuleAt(is, y).Host
          /\ RulePaths(RuleAt(is, x)) \ RulePaths(RuleAt(is, y)) # {}
          /\ RulePaths(RuleAt(is, y)) \ RulePaths(RuleAt(is, x)) # {}
    /\ \E other \in Orderings(is) :
          /\ Aggregate(other).hosts # hosts
          /\ \A doc \in Documents(rootTpl, other) :
                /\ doc # Execute(rootTpl, hostsList).out
                /\ Structure(doc) = Structure(Execute(rootTpl, hostsList).out)
                /\ Len(doc) > 4

\* ------------------------------------------------- serial passes
\* the revision of the record set a document is the rendering of
RevisionOf(doc) ==
    Min({i \in DOMAIN Revisions : doc \in Documents(rootTpl, Revisions[i])})

\* a pass that ran to its end returns without error
PassCompletes == pc = "executed" /\ pc' = "idle"

\* C25: with the passes run one at a time, the published document changes
\* only when a pass completes without error, it is then the rendering of the
\* snapshot that pass listed, and the revision of the record set it renders
\* is never an older one than that of the document published before.
C25_PublishedFollowsLatestPass ==
    [][/\ pagePtr' # pagePtr => PassCompletes
       /\ PassCompletes =>
             /\ pagePtr' # Nil
             /\ pagePtr'[1] \in Documents(rootTpl, is)
             /\ is = Revisions[RevisionOf(pagePtr'[1])]
             /\ pagePtr # Nil => RevisionOf(pagePtr[1]) <= RevisionOf(pagePtr'[1])]_vars

\* the pass that listed the fourth revision has published its rendering in
\* place of the third's, while the record set has moved on to the fifth
C25_Witness ==
    /\ pc = "idle"
    /\ result = "ok"
    /\ cluster = Revisions[5]
    /\ before # Nil
    /\ before[1] \in Documents(rootTpl, Revisions[3])
    /\ pagePtr # Nil
    /\ pagePtr[1] \in Documents(rootTpl, Revisions[4])
    /\ RevisionOf(before[1]) = 3
    /\ RevisionOf(pagePtr[1]) = 4

\* ------------------------------------------------- a snapshot without hosts
\* C26: a pass that completes without error over a snapshot in which no rule
\* of a record that is not skipped names a host publishes the document
\* without links; the pointer is not nil afterwards, and the first such
\* publication is logged.
C26_EmptySnapshotPublishes ==
    [][(PassCompletes /\ NamedHosts(is) = {}) =>
           /\ pagePtr' = <<<<Prolog, Epilog>>>>
           /\ Links(pagePtr'[1]) = <<>>
           /\ HavePage(pagePtr')
           /\ ~PageIsNil(pagePtr')
           /\ pagePtr = Nil => "First reconcile completed" \in log']_vars

\* the first pass over a skipped record that names a host and a record
\* whose only rule has no host has published the document without links
C26_Witness ==
    /\ pc = "idle"
    /\ result = "ok"
    /\ before = Nil
    /\ Len(cluster) = 2
    /\ ~NotMarkedSkip(cluster[1]) /\ RecordHosts(cluster[1]) # {}
    /\ NotMarkedSkip(cluster[2]) /\ Len(cluster[2].Spec.Rules) = 1
    /\ cluster[2].Spec.Rules[1].Host = <<>>
    /\ pagePtr = <<<<Prolog, Epilog>>>>
    /\ "First reconcile completed" \in log

\* ------------------------------------------------- the errgroup ends
Goroutines == {"manager", "server", "watcher"}

\* C27: in the errgroup of main.go, once one of the three goroutines has
\* returned, for whatever reason, the other two return as well and grp.Wait
\* returns.
C27_AllReturnOnceOneDoes ==
    (\E g \in Goroutines : gpc[g] = "returned")
        ~> (mainpc = "exit-wait" /\ \A g \in Goroutines : gpc[g] = "returned")

\* grp.Wait has returned after the server failed to listen, with no signal
\* delivered: the manager and the watcher returned after it
C27_Witness ==
    /\ mainpc = "exit-wait"
    /\ \A g \in Goroutines : gpc[g] = "returned"
    /\ ~sigCtx
    /\ grpErr = <<"listen failed">>

\* ------------------------------------------------- the exit status
\* C28 (as claimed): when m.Start has returned without error, or with the
\* context cancellation that follows a shutdown signal, the process does not
\* exit with status 1.
C28_ErrorExitOnlyOnFailure ==
    (mainpc = "exit-start" /\ sigCtx /\ startErr \in {<<"nil">>, <<"canceled">>}) =>
        exitCode # <<ExitFailure>>

\* A rule without an HTTP section has no path entries
WithoutPaths(rule) == IF rule.HTTP = Nil THEN [rule EXCEPT !.HTTP = HTTPPaths(<<>>)] ELSE rule

\* The document the record set stands for: its hosts and paths aggregated,
\* sorted and rendered, a host-only rule giving the host and no paths
RenderingOf(tpl, items) ==
    LET full == [k \in DOMAIN items |->
                    [items[k] EXCEPT !.Spec.Rules =
                        [n \in DOMAIN items[k].Spec.Rules |->
                            WithoutPaths(items[k].Spec.Rules[n])]]]
        agg == Aggregate(full).hosts
        order == CHOOSE o \in Orders(DOMAIN agg) : TRUE
    IN Execute(tpl, SortSlice(Collect(agg, order))).out

\* C6 (as claimed): when the record set stays at some value for good, the
\* published page is from some point on, and stays, the rendering of it.
C6_Converges ==
    \A c \in SystemClusters :
        <>[](cluster = c) => <>[](pagePtr = <<RenderingOf(rootTpl, c)>>)

====
